---------------------------- MODULE Spec2Model ----------------------------
(***************************************************************************)
(* A model of razielgn/redis: the command execution engine                 *)
(* (src/redis/database.rs), command lowering (src/redis/commands.rs), the  *)
(* RESP codec (src/redis/resp.rs) and the TCP dispatch (src/redis/tcp.rs). *)
(*                                                                         *)
(* Bytes are one-character strings; a byte sequence (Vec<u8>, &[u8]) is a  *)
(* sequence of them.  i64 is modelled with IntBits bits instead of 64, and *)
(* usize with the same number of bits (unsigned), so that the overflow     *)
(* cases of the code are within TLC's integers.                            *)
(***************************************************************************)
EXTENDS Integers, Sequences, FiniteSets

(***************************************************************************)
(* Bounds of the model.                                                    *)
(***************************************************************************)
\* width of the signed integer type standing for i64 (and of usize)
IntBits == 3
\* longest string value APPEND may build
MaxLen == 2
\* longest list LPUSH may build
MaxList == 3
\* number of connection workers
NWorkers == 2
\* number of socket reads a connection's peer feeds with data
MaxReads == 2
\* most arguments after the name in the requests sent to one connection
MaxArgs == 4

RECURSIVE Pow2(_)
Pow2(n) == IF n = 0 THEN 1 ELSE 2 * Pow2(n - 1)

\* i64::min_value(), i64::max_value(), and the modulus of usize
I64Min == 0 - Pow2(IntBits - 1)
I64Max == Pow2(IntBits - 1) - 1
UsizeMod == Pow2(IntBits)

InI64(n) == I64Min <= n /\ n <= I64Max

\* two's complement wrap-around of an i64 result (release builds)
WrapI64(n) == ((n - I64Min) % UsizeMod) + I64Min

\* `x as usize` for an i64 x
AsUsize(x) == x % UsizeMod

Min(a, b) == IF a <= b THEN a ELSE b

(***************************************************************************)
(* Bytes.                                                                  *)
(***************************************************************************)
CR == "\r"
LF == "\n"
Digits == <<"0", "1", "2", "3", "4", "5", "6", "7", "8", "9">>

IsDigit(c) == \E i \in 1..10 : Digits[i] = c
DigitVal(c) == (CHOOSE i \in 1..10 : Digits[i] = c) - 1

\* the value of a byte (ASCII), for the bytes the model uses
ByteValue(c) ==
    CASE c = CR -> 13
      [] c = LF -> 10
      [] c = " " -> 32
      [] c = "\"" -> 34
      [] c = "$" -> 36
      [] c = "*" -> 42
      [] c = "+" -> 43
      [] c = "-" -> 45
      [] c = ":" -> 58
      [] IsDigit(c) -> 48 + DigitVal(c)
      [] c = "A" -> 65
      [] c = "B" -> 66
      [] c = "C" -> 67
      [] c = "D" -> 68
      [] c = "E" -> 69
      [] c = "G" -> 71
      [] c = "I" -> 73
      [] c = "N" -> 78
      [] c = "P" -> 80
      [] c = "R" -> 82
      [] c = "S" -> 83
      [] c = "T" -> 84
      [] c = "Y" -> 89
      [] c = "a" -> 97
      [] c = "b" -> 98
      [] c = "c" -> 99
      [] c = "d" -> 100
      [] c = "e" -> 101
      [] c = "g" -> 103
      [] c = "i" -> 105
      [] c = "j" -> 106
      [] c = "k" -> 107
      [] c = "n" -> 110
      [] c = "p" -> 112
      [] c = "r" -> 114
      [] c = "s" -> 115
      [] c = "t" -> 116
      [] c = "y" -> 121
      [] OTHER -> 255

\* u8::count_ones
RECURSIVE PopCount(_)
PopCount(n) == IF n = 0 THEN 0 ELSE (n % 2) + PopCount(n \div 2)
count_ones(c) == PopCount(ByteValue(c))

(***************************************************************************)
(* i64::from_str_radix(s, 10) and format!("{}", i64).                      *)
(***************************************************************************)
\* checked accumulation of the digits, most significant first; sign is 1 or -1
RECURSIVE ParseDigits(_, _, _)
ParseDigits(ds, acc, sign) ==
    IF ds = <<>> THEN [ok |-> TRUE, val |-> acc]
    ELSE IF ~IsDigit(Head(ds)) THEN [ok |-> FALSE, val |-> 0]
    ELSE LET next == acc * 10 + sign * DigitVal(Head(ds))
         IN  IF ~InI64(next) THEN [ok |-> FALSE, val |-> 0]
             ELSE ParseDigits(Tail(ds), next, sign)

from_str_radix(s) ==
    IF s = <<>> THEN [ok |-> FALSE, val |-> 0]
    ELSE LET neg    == Head(s) = "-"
             signed == Head(s) = "-" \/ Head(s) = "+"
             ds     == IF signed THEN Tail(s) ELSE s
         IN  IF ds = <<>> THEN [ok |-> FALSE, val |-> 0]
             ELSE ParseDigits(ds, 0, IF neg THEN 0 - 1 ELSE 1)

RECURSIVE FormatNat(_)
FormatNat(n) ==
    IF n < 10 THEN <<Digits[n + 1]>>
    ELSE FormatNat(n \div 10) \o <<Digits[(n % 10) + 1]>>

\* format!("{}", int)
format(int) == IF int < 0 THEN <<"-">> \o FormatNat(0 - int) ELSE FormatNat(int)

(***************************************************************************)
(* Values, commands and results (database.rs 10-45, commands.rs 9-27).     *)
(* Every variant is a record with the same fields, the unused ones at a    *)
(* default, so that any two of them can be compared.                       *)
(***************************************************************************)
ValueString(s)  == [tag |-> "String",  bytes |-> s,    int |-> 0, list |-> <<>>]
ValueInteger(i) == [tag |-> "Integer", bytes |-> <<>>, int |-> i, list |-> <<>>]
ValueList(l)    == [tag |-> "List",    bytes |-> <<>>, int |-> 0, list |-> l]

Return(kind, int, bytes) == [ok |-> TRUE, kind |-> kind, int |-> int, bytes |-> bytes]
ReturnOk            == Return("Ok", 0, <<>>)
ReturnNil           == Return("Nil", 0, <<>>)
ReturnInteger(i)    == Return("Integer", i, <<>>)
ReturnSize(u)       == Return("Size", u, <<>>)
ReturnBulkString(s) == Return("BulkString", 0, s)
\* Type::None, Type::String, Type::List, by the name the encoder writes
ReturnType(t)       == Return("Type", 0, t)
TypeNone   == <<"n", "o", "n", "e">>
TypeString == <<"s", "t", "r", "i", "n", "g">>
TypeList   == <<"l", "i", "s", "t">>

Error(kind, name) == [ok |-> FALSE, kind |-> kind, int |-> 0, bytes |-> name]
UnknownCommand(name)  == Error("UnknownCommand", name)
BadCommandAryth(name) == Error("BadCommandAryth", name)
NoSuchKey       == Error("NoSuchKey", <<>>)
NotAnInteger    == Error("NotAnInteger", <<>>)
IntegerOverflow == Error("IntegerOverflow", <<>>)
WrongType       == Error("WrongType", <<>>)
\* not a CommandError: the thread panicked (arithmetic overflow in a build
\* with overflow checks, or an unwrap of an Err)
Panicked        == Error("Panic", <<>>)

NoRange == [some |-> FALSE, start |-> 0, end |-> 0]
IntRange(from, to) == [some |-> TRUE, start |-> from, end |-> to]

Command(op, key, value, by, keys, range) ==
    [op |-> op, key |-> key, value |-> value, by |-> by, keys |-> keys, range |-> range]
CommandAppend(key, value)    == Command("Append", key, value, 0, <<>>, NoRange)
CommandBitCount(key, range)  == Command("BitCount", key, <<>>, 0, <<>>, range)
CommandDecrBy(key, by)       == Command("DecrBy", key, <<>>, by, <<>>, NoRange)
CommandDel(keys)             == Command("Del", <<>>, <<>>, 0, keys, NoRange)
CommandExists(keys)          == Command("Exists", <<>>, <<>>, 0, keys, NoRange)
CommandGet(key)              == Command("Get", key, <<>>, 0, <<>>, NoRange)
CommandGetRange(key, range)  == Command("GetRange", key, <<>>, 0, <<>>, range)
CommandIncrBy(key, by)       == Command("IncrBy", key, <<>>, by, <<>>, NoRange)
CommandLIndex(key, index)    == Command("LIndex", key, <<>>, index, <<>>, NoRange)
CommandLLen(key)             == Command("LLen", key, <<>>, 0, <<>>, NoRange)
CommandLPop(key)             == Command("LPop", key, <<>>, 0, <<>>, NoRange)
CommandLPush(key, values)    == Command("LPush", key, <<>>, 0, values, NoRange)
CommandRename(key, new_key)  == Command("Rename", key, new_key, 0, <<>>, NoRange)
CommandSet(key, value)       == Command("Set", key, value, 0, <<>>, NoRange)
CommandStrlen(key)           == Command("Strlen", key, <<>>, 0, <<>>, NoRange)
CommandType(key)             == Command("Type", key, <<>>, 0, <<>>, NoRange)
\* no command (before the first call)
NoCommand == Command("None", <<>>, <<>>, 0, <<>>, NoRange)

(***************************************************************************)
(* Helpers of database.rs.  The keyspace `memory` is a function whose      *)
(* domain is the set of keys present (HashMap<Vec<u8>, Value>).            *)
(***************************************************************************)
EmptyMemory == [k \in {} |-> ValueString(<<>>)]

contains_key(memory, key) == key \in DOMAIN memory

remove(memory, key) == [k \in (DOMAIN memory) \ {key} |-> memory[k]]

insert(memory, key, value) ==
    [k \in (DOMAIN memory) \cup {key} |-> IF k = key THEN value ELSE memory[k]]

\* len.checked_sub(n).unwrap_or(0)
checked_sub_or_0(len, n) == IF n > len THEN 0 ELSE len - n

\* i64::abs: overflows on i64::MIN (a panic with overflow checks, else MIN)
abs_overflows(x) == x = I64Min
abs(x) == IF x = I64Min THEN I64Min ELSE IF x < 0 THEN 0 - x ELSE x

\* Some(start .. end + 1), None, or a panic of abs() under overflow checks
range_calc(r, len, overflow_checks) ==
    IF overflow_checks /\ ((r.start < 0 /\ abs_overflows(r.start))
                           \/ (r.end < 0 /\ abs_overflows(r.end)))
    THEN [panic |-> TRUE, some |-> FALSE, start |-> 0, end |-> 0]
    ELSE LET start == IF r.start < 0
                      THEN checked_sub_or_0(len, AsUsize(abs(r.start)))
                      ELSE AsUsize(abs(r.start))
             end0  == IF r.end < 0
                      THEN checked_sub_or_0(len, AsUsize(abs(r.end)) - 1)
                      ELSE AsUsize(abs(r.end))
             end   == IF end0 >= len THEN checked_sub_or_0(len, 1) ELSE end0
         IN  IF start > end \/ len = 0
             THEN [panic |-> FALSE, some |-> FALSE, start |-> 0, end |-> 0]
             ELSE [panic |-> FALSE, some |-> TRUE, start |-> start, end |-> end + 1]

\* Some(position), None, or a panic of abs() under overflow checks
pos_calc(index, len, overflow_checks) ==
    IF index >= 0
    THEN IF AsUsize(index) >= len
         THEN [panic |-> FALSE, some |-> FALSE, pos |-> 0]
         ELSE [panic |-> FALSE, some |-> TRUE, pos |-> AsUsize(index)]
    ELSE IF overflow_checks /\ abs_overflows(index)
         THEN [panic |-> TRUE, some |-> FALSE, pos |-> 0]
         ELSE IF AsUsize(abs(index)) > len
              THEN [panic |-> FALSE, some |-> FALSE, pos |-> 0]
              ELSE [panic |-> FALSE, some |-> TRUE, pos |-> len - AsUsize(abs(index))]

integer_or_string(bytes) ==
    LET parsed == from_str_radix(bytes)
    IN  IF parsed.ok THEN ValueInteger(parsed.val) ELSE ValueString(bytes)

RECURSIVE SumBits(_)
SumBits(slice) ==
    IF slice = <<>> THEN 0 ELSE count_ones(Head(slice)) + SumBits(Tail(slice))

\* the count, or -1 for a panic inside range_calc
count_on_bits(slice, range, overflow_checks) ==
    IF range.some
    THEN LET rc == range_calc(range, Len(slice), overflow_checks)
         IN  IF rc.panic THEN 0 - 1
             ELSE IF ~rc.some THEN 0
             ELSE SumBits(SubSeq(slice, rc.start + 1, rc.end))
    ELSE SumBits(slice)

\* the values put in front of the list in the order of the arguments
push_to_list_in_order(list, values) == values \o list

\* push_front of each value in turn: the last value ends up at the head
RECURSIVE push_to_list(_, _)
push_to_list(list, values) ==
    IF values = <<>> THEN list
    ELSE push_to_list(<<Head(values)>> \o list, Tail(values))

(***************************************************************************)
(* The methods of Database.  A method taking &mut self yields the new      *)
(* keyspace and the result; a method taking &self yields the result.       *)
(***************************************************************************)
Outcome(memory, result) == [memory |-> memory, result |-> result]

\* SET that keeps nothing but the key it writes
set_alone(memory, key, bytes) ==
    Outcome(insert(EmptyMemory, key, integer_or_string(bytes)), ReturnOk)

set(memory, key, bytes) ==
    Outcome(insert(memory, key, integer_or_string(bytes)), ReturnOk)

\* GET answering for a List with its first element
get_head_of_list(memory, key) ==
    IF ~contains_key(memory, key) THEN ReturnNil
    ELSE IF memory[key].tag = "String" THEN ReturnBulkString(memory[key].bytes)
    ELSE IF memory[key].tag = "Integer" THEN ReturnBulkString(format(memory[key].int))
    ELSE IF memory[key].list = <<>> THEN ReturnNil
    ELSE ReturnBulkString(Head(memory[key].list))

get(memory, key) ==
    IF ~contains_key(memory, key) THEN ReturnNil
    ELSE IF memory[key].tag = "String" THEN ReturnBulkString(memory[key].bytes)
    ELSE IF memory[key].tag = "Integer" THEN ReturnBulkString(format(memory[key].int))
    ELSE WrongType

RECURSIVE CountPresent(_, _)
CountPresent(memory, keys) ==
    IF keys = <<>> THEN 0
    ELSE (IF contains_key(memory, Head(keys)) THEN 1 ELSE 0)
         + CountPresent(memory, Tail(keys))

\* EXISTS counting each present key once, however often it is listed
exists_distinct(memory, keys) ==
    ReturnSize(Cardinality({i \in 1..Len(keys) :
        /\ contains_key(memory, keys[i])
        /\ \A j \in 1..(i - 1) : keys[j] # keys[i]}))

exists(memory, keys) == ReturnSize(CountPresent(memory, keys))

\* the filter closure removes each key in turn and keeps those it removed
RECURSIVE RemoveEach(_, _, _)
RemoveEach(memory, keys, sum) ==
    IF keys = <<>> THEN Outcome(memory, ReturnSize(sum))
    ELSE RemoveEach(remove(memory, Head(keys)), Tail(keys),
                    IF contains_key(memory, Head(keys)) THEN sum + 1 ELSE sum)

\* DEL counting the listed positions that name a present key
del_count_positions(memory, keys) ==
    Outcome(RemoveEach(memory, keys, 0).memory, ReturnSize(CountPresent(memory, keys)))

del(memory, keys) == RemoveEach(memory, keys, 0)

\* RENAME that copies the value and leaves the old key in place
rename_keep_old(memory, key, new_key) ==
    IF ~contains_key(memory, key) THEN Outcome(memory, NoSuchKey)
    ELSE Outcome(insert(memory, new_key, memory[key]), ReturnOk)

rename(memory, key, new_key) ==
    IF ~contains_key(memory, key) THEN Outcome(memory, NoSuchKey)
    ELSE Outcome(insert(remove(memory, key), new_key, memory[key]), ReturnOk)

\* incr_by storing the wrapped sum before it reports the overflow
incr_by_store_first(memory, key, by) ==
    IF ~contains_key(memory, key)
    THEN Outcome(insert(memory, key, ValueInteger(by)), ReturnInteger(by))
    ELSE LET value == memory[key]
         IN  IF value.tag = "Integer"
             THEN IF InI64(value.int + by)
                  THEN Outcome(insert(memory, key, ValueInteger(value.int + by)),
                               ReturnInteger(value.int + by))
                  ELSE Outcome(insert(memory, key, ValueInteger(WrapI64(value.int + by))),
                               IntegerOverflow)
             ELSE IF value.tag = "String" /\ value.bytes = <<>>
             THEN Outcome(insert(memory, key, ValueInteger(by)), ReturnInteger(by))
             ELSE Outcome(memory, NotAnInteger)

incr_by(memory, key, by) ==
    IF ~contains_key(memory, key)
    THEN Outcome(insert(memory, key, ValueInteger(by)), ReturnInteger(by))
    ELSE LET value == memory[key]
         IN  IF value.tag = "Integer"
             THEN IF InI64(value.int + by)
                  THEN Outcome(insert(memory, key, ValueInteger(value.int + by)),
                               ReturnInteger(value.int + by))
                  ELSE Outcome(memory, IntegerOverflow)
             ELSE IF value.tag = "String" /\ value.bytes = <<>>
             THEN Outcome(insert(memory, key, ValueInteger(by)), ReturnInteger(by))
             ELSE Outcome(memory, NotAnInteger)

strlen(memory, key) ==
    IF ~contains_key(memory, key) THEN ReturnSize(0)
    ELSE IF memory[key].tag = "String" THEN ReturnSize(Len(memory[key].bytes))
    ELSE IF memory[key].tag = "Integer" THEN ReturnSize(Len(format(memory[key].int)))
    ELSE WrongType

append(memory, key, value) ==
    IF ~contains_key(memory, key)
    THEN Outcome(set(memory, key, value).memory, ReturnSize(Len(value)))
    ELSE LET old_value == memory[key]
         IN  IF old_value.tag = "Integer"
             THEN LET bytes == format(old_value.int) \o value
                  IN  Outcome(insert(memory, key, integer_or_string(bytes)),
                              ReturnSize(Len(bytes)))
             ELSE IF old_value.tag = "String"
             THEN Outcome(insert(memory, key, ValueString(old_value.bytes \o value)),
                          ReturnSize(Len(old_value.bytes) + Len(value)))
             ELSE Outcome(memory, WrongType)

\* TYPE naming the Integer tag
type_shows_integer(memory, key) ==
    IF ~contains_key(memory, key) THEN ReturnType(TypeNone)
    ELSE IF memory[key].tag = "List" THEN ReturnType(TypeList)
    ELSE IF memory[key].tag = "Integer"
    THEN ReturnType(<<"i", "n", "t", "e", "g", "e", "r">>)
    ELSE ReturnType(TypeString)

type_(memory, key) ==
    IF ~contains_key(memory, key) THEN ReturnType(TypeNone)
    ELSE IF memory[key].tag = "List" THEN ReturnType(TypeList)
    ELSE ReturnType(TypeString)

bit_count(memory, key, range, overflow_checks) ==
    IF ~contains_key(memory, key) THEN ReturnSize(0)
    ELSE IF memory[key].tag = "List" THEN WrongType
    ELSE LET slice == IF memory[key].tag = "String" THEN memory[key].bytes
                      ELSE format(memory[key].int)
             count == count_on_bits(slice, range, overflow_checks)
         IN  IF count < 0 THEN Panicked ELSE ReturnSize(count)

get_range(memory, key, range, overflow_checks) ==
    IF ~contains_key(memory, key) THEN ReturnBulkString(<<>>)
    ELSE IF memory[key].tag = "List" THEN WrongType
    ELSE LET s  == IF memory[key].tag = "String" THEN memory[key].bytes
                   ELSE format(memory[key].int)
             rc == range_calc(range, Len(s), overflow_checks)
         IN  IF rc.panic THEN Panicked
             ELSE IF ~rc.some THEN ReturnBulkString(<<>>)
             ELSE ReturnBulkString(SubSeq(s, rc.start + 1, rc.end))

\* LPUSH answering with the number of values of the call
lpush_counts_arguments(memory, key, values) ==
    IF ~contains_key(memory, key)
    THEN Outcome(insert(memory, key, ValueList(push_to_list(<<>>, values))),
                 ReturnSize(Len(values)))
    ELSE IF memory[key].tag = "List"
    THEN LET list == push_to_list(memory[key].list, values)
         IN  Outcome(insert(memory, key, ValueList(list)), ReturnSize(Len(values)))
    ELSE Outcome(memory, WrongType)

lpush(memory, key, values) ==
    IF ~contains_key(memory, key)
    THEN Outcome(insert(memory, key, ValueList(push_to_list(<<>>, values))),
                 ReturnSize(Len(values)))
    ELSE IF memory[key].tag = "List"
    THEN LET list == push_to_list(memory[key].list, values)
         IN  Outcome(insert(memory, key, ValueList(list)), ReturnSize(Len(list)))
    ELSE Outcome(memory, WrongType)

llen(memory, key) ==
    IF ~contains_key(memory, key) THEN ReturnSize(0)
    ELSE IF memory[key].tag = "List" THEN ReturnSize(Len(memory[key].list))
    ELSE WrongType

lindex(memory, key, index, overflow_checks) ==
    IF ~contains_key(memory, key) THEN ReturnNil
    ELSE IF memory[key].tag # "List" THEN WrongType
    ELSE LET list == memory[key].list
             pos  == pos_calc(index, Len(list), overflow_checks)
         IN  IF pos.panic THEN Panicked
             ELSE IF pos.some /\ pos.pos < Len(list)
             THEN ReturnBulkString(list[pos.pos + 1])
             ELSE ReturnNil

\* LPOP that deletes the key once its list is empty
lpop_removes_emptied(memory, key) ==
    IF ~contains_key(memory, key) THEN Outcome(memory, ReturnNil)
    ELSE IF memory[key].tag # "List" THEN Outcome(memory, WrongType)
    ELSE IF memory[key].list = <<>> THEN Outcome(memory, ReturnNil)
    ELSE IF Tail(memory[key].list) = <<>>
    THEN Outcome(remove(memory, key), ReturnBulkString(Head(memory[key].list)))
    ELSE Outcome(insert(memory, key, ValueList(Tail(memory[key].list))),
                 ReturnBulkString(Head(memory[key].list)))

lpop(memory, key) ==
    IF ~contains_key(memory, key) THEN Outcome(memory, ReturnNil)
    ELSE IF memory[key].tag # "List" THEN Outcome(memory, WrongType)
    ELSE IF memory[key].list = <<>> THEN Outcome(memory, ReturnNil)
    ELSE Outcome(insert(memory, key, ValueList(Tail(memory[key].list))),
                 ReturnBulkString(Head(memory[key].list)))

\* Command::DecrBy => self.incr_by(key, -by): the negation overflows on
\* i64::MIN, a panic with overflow checks and a wrap to i64::MIN without
decr_by(memory, key, by, overflow_checks) ==
    IF by = I64Min
    THEN IF overflow_checks THEN Outcome(memory, Panicked)
         ELSE incr_by(memory, key, WrapI64(0 - by))
    ELSE incr_by(memory, key, 0 - by)

\* apply whose LLEN makes the list it did not find
apply_llen_creates(memory, command, overflow_checks) ==
    CASE command.op = "Append"   -> append(memory, command.key, command.value)
      [] command.op = "BitCount" ->
            Outcome(memory, bit_count(memory, command.key, command.range, overflow_checks))
      [] command.op = "DecrBy"   -> decr_by(memory, command.key, command.by, overflow_checks)
      [] command.op = "Del"      -> del(memory, command.keys)
      [] command.op = "Exists"   -> Outcome(memory, exists(memory, command.keys))
      [] command.op = "Get"      -> Outcome(memory, get(memory, command.key))
      [] command.op = "GetRange" ->
            Outcome(memory, get_range(memory, command.key, command.range, overflow_checks))
      [] command.op = "IncrBy"   -> incr_by(memory, command.key, command.by)
      [] command.op = "LIndex"   ->
            Outcome(memory, lindex(memory, command.key, command.by, overflow_checks))
      [] command.op = "LLen"     ->
            Outcome(IF contains_key(memory, command.key) THEN memory
                    ELSE insert(memory, command.key, ValueList(<<>>)),
                    llen(memory, command.key))
      [] command.op = "LPop"     -> lpop(memory, command.key)
      [] command.op = "LPush"    -> lpush(memory, command.key, command.keys)
      [] command.op = "Rename"   -> rename(memory, command.key, command.value)
      [] command.op = "Set"      -> set(memory, command.key, command.value)
      [] command.op = "Strlen"   -> Outcome(memory, strlen(memory, command.key))
      [] command.op = "Type"     -> Outcome(memory, type_(memory, command.key))

apply(memory, command, overflow_checks) ==
    CASE command.op = "Append"   -> append(memory, command.key, command.value)
      [] command.op = "BitCount" ->
            Outcome(memory, bit_count(memory, command.key, command.range, overflow_checks))
      [] command.op = "DecrBy"   -> decr_by(memory, command.key, command.by, overflow_checks)
      [] command.op = "Del"      -> del(memory, command.keys)
      [] command.op = "Exists"   -> Outcome(memory, exists(memory, command.keys))
      [] command.op = "Get"      -> Outcome(memory, get(memory, command.key))
      [] command.op = "GetRange" ->
            Outcome(memory, get_range(memory, command.key, command.range, overflow_checks))
      [] command.op = "IncrBy"   -> incr_by(memory, command.key, command.by)
      [] command.op = "LIndex"   ->
            Outcome(memory, lindex(memory, command.key, command.by, overflow_checks))
      [] command.op = "LLen"     -> Outcome(memory, llen(memory, command.key))
      [] command.op = "LPop"     -> lpop(memory, command.key)
      [] command.op = "LPush"    -> lpush(memory, command.key, command.keys)
      [] command.op = "Rename"   -> rename(memory, command.key, command.value)
      [] command.op = "Set"      -> set(memory, command.key, command.value)
      [] command.op = "Strlen"   -> Outcome(memory, strlen(memory, command.key))
      [] command.op = "Type"     -> Outcome(memory, type_(memory, command.key))

(***************************************************************************)
(* The RESP decoder (resp.rs 84-147, nom parsers).  A parser yields        *)
(* Done(rest, value), Error or Incomplete.                                 *)
(***************************************************************************)
RespValue(type, bytes, int, array) ==
    [type |-> type, bytes |-> bytes, int |-> int, array |-> array]
SimpleString(s)  == RespValue("SimpleString", s, 0, <<>>)
ErrorString(s)   == RespValue("Error", s, 0, <<>>)
RespInteger(i)   == RespValue("Integer", <<>>, i, <<>>)
BulkString(s)    == RespValue("BulkString", s, 0, <<>>)
Array(values)    == RespValue("Array", <<>>, 0, values)
Null             == RespValue("Null", <<>>, 0, <<>>)

Done(rest, value) == [status |-> "Done", rest |-> rest, value |-> value]
ParseError        == [status |-> "Error", rest |-> <<>>, value |-> Null]
Incomplete        == [status |-> "Incomplete", rest |-> <<>>, value |-> Null]

Drop(i, n) == SubSeq(i, n + 1, Len(i))
Take(i, n) == SubSeq(i, 1, n)

\* nom::crlf
crlf(i) ==
    IF Len(i) < 2 THEN Incomplete
    ELSE IF Take(i, 2) = <<CR, LF>> THEN Done(Drop(i, 2), Null)
    ELSE ParseError

\* the number of leading bytes of i that satisfy the test
RECURSIVE RunOfDigits(_)
RunOfDigits(i) ==
    IF i = <<>> \/ ~IsDigit(Head(i)) THEN 0 ELSE 1 + RunOfDigits(Tail(i))
RECURSIVE RunOfNotCrLf(_)
RunOfNotCrLf(i) ==
    IF i = <<>> \/ Head(i) = CR \/ Head(i) = LF THEN 0 ELSE 1 + RunOfNotCrLf(Tail(i))

RECURSIVE NatOf(_, _)
NatOf(ds, acc) ==
    IF ds = <<>> THEN acc ELSE NatOf(Tail(ds), acc * 10 + DigitVal(Head(ds)))

\* integer: an optional sign, then digits parsed by i64::from_str_radix
integer(i) ==
    LET signed == i # <<>> /\ (Head(i) = "-" \/ Head(i) = "+")
        sign   == IF signed THEN <<Head(i)>> ELSE <<"+">>
        body   == IF signed THEN Tail(i) ELSE i
        n      == RunOfDigits(body)
        parsed == from_str_radix(sign \o Take(body, n))
    IN  IF n = 0 \/ ~parsed.ok THEN ParseError
        ELSE Done(Drop(body, n), RespInteger(parsed.val))

\* size: digits parsed as usize
size(i) ==
    LET n == RunOfDigits(i)
    IN  IF n = 0 THEN ParseError
        ELSE Done(Drop(i, n), RespInteger(NatOf(Take(i, n), 0)))

\* a bulk string whose payload runs to the end of the line
bulk_string_to_line_end(i) ==
    LET sz == size(i)
    IN  IF sz.status # "Done" THEN sz
        ELSE LET c1 == crlf(sz.rest)
             IN  IF c1.status # "Done" THEN c1
                 ELSE LET n  == RunOfNotCrLf(c1.rest)
                          c2 == crlf(Drop(c1.rest, n))
                      IN  IF c2.status # "Done" THEN c2
                          ELSE Done(c2.rest, BulkString(Take(c1.rest, n)))

\* bulk_string: size, crlf, take!(size), crlf
bulk_string(i) ==
    LET sz == size(i)
    IN  IF sz.status # "Done" THEN sz
        ELSE LET c1 == crlf(sz.rest)
             IN  IF c1.status # "Done" THEN c1
                 ELSE IF Len(c1.rest) < sz.value.int THEN Incomplete
                 ELSE LET c2 == crlf(Drop(c1.rest, sz.value.int))
                      IN  IF c2.status # "Done" THEN c2
                          ELSE Done(c2.rest, BulkString(Take(c1.rest, sz.value.int)))

\* binary_string: terminated!(is_not!("\n\r"), crlf)
binary_string(i) ==
    LET n == RunOfNotCrLf(i)
    IN  IF n = 0 THEN (IF i = <<>> THEN Incomplete ELSE ParseError)
        ELSE LET c == crlf(Drop(i, n))
             IN  IF c.status # "Done" THEN c ELSE Done(c.rest, SimpleString(Take(i, n)))

\* null: tag!(b"-1\r\n")
null(i) ==
    IF Len(i) < 4 THEN Incomplete
    ELSE IF Take(i, 4) = <<"-", "1", CR, LF>> THEN Done(Drop(i, 4), Null)
    ELSE ParseError

RECURSIVE decode(_)
RECURSIVE count_decode(_, _, _)

\* count!(decode, size): size values in a row
count_decode(i, n, values) ==
    IF n = 0 THEN Done(i, Array(values))
    ELSE LET d == decode(i)
         IN  IF d.status # "Done" THEN d
             ELSE count_decode(d.rest, n - 1, Append(values, d.value))

\* array: size, crlf, count!(decode, size)
array(i) ==
    LET sz == size(i)
    IN  IF sz.status # "Done" THEN sz
        ELSE LET c == crlf(sz.rest)
             IN  IF c.status # "Done" THEN c
                 ELSE count_decode(c.rest, sz.value.int, <<>>)

\* alt!(a | b), the results of the two alternatives given
alt(a, b) == IF a.status = "Done" THEN a ELSE b

\* switch!(take!(1), ...)
decode(i) ==
    IF i = <<>> THEN Incomplete
    ELSE LET r == Tail(i)
         IN  CASE Head(i) = "+" -> binary_string(r)
               [] Head(i) = "-" ->
                    LET b == binary_string(r)
                    IN  IF b.status = "Done" THEN Done(b.rest, ErrorString(b.value.bytes))
                        ELSE b
               [] Head(i) = ":" ->
                    LET n == integer(r)
                    IN  IF n.status # "Done" THEN n
                        ELSE LET c == crlf(n.rest)
                             IN  IF c.status # "Done" THEN c ELSE Done(c.rest, n.value)
               [] Head(i) = "$" -> alt(null(r), bulk_string(r))
               [] Head(i) = "*" -> alt(null(r), array(r))
               [] OTHER -> ParseError

(***************************************************************************)
(* Command lowering (commands.rs 29-153).                                  *)
(***************************************************************************)
UpperCase == <<"A", "B", "C", "D", "E", "F", "G", "H", "I", "J", "K", "L", "M",
               "N", "O", "P", "Q", "R", "S", "T", "U", "V", "W", "X", "Y", "Z">>
LowerCase == <<"a", "b", "c", "d", "e", "f", "g", "h", "i", "j", "k", "l", "m",
               "n", "o", "p", "q", "r", "s", "t", "u", "v", "w", "x", "y", "z">>

to_ascii_lowercase(s) ==
    [n \in 1..Len(s) |->
        IF \E l \in 1..26 : UpperCase[l] = s[n]
        THEN LowerCase[CHOOSE l \in 1..26 : UpperCase[l] = s[n]]
        ELSE s[n]]

slice_to_i64(s) == from_str_radix(s)

\* lowering yields Ok(command) or Err(error)
Lowered(c) == [ok |-> TRUE, command |-> c, error |-> ReturnOk]
NotLowered(e) == [ok |-> FALSE, command |-> NoCommand, error |-> e]

\* the macros key_value!, key_int!, string!, keys!, key_range_opt!,
\* key_range! and key_values!, on the arguments args = s[1..]
key_value(cmd, args, op) ==
    IF Len(args) = 2 THEN Lowered(Command(op, args[1], args[2], 0, <<>>, NoRange))
    ELSE NotLowered(BadCommandAryth(cmd))

key_int(cmd, args, op) ==
    IF Len(args) = 2
    THEN LET i == slice_to_i64(args[2])
         IN  IF i.ok THEN Lowered(Command(op, args[1], <<>>, i.val, <<>>, NoRange))
             ELSE NotLowered(NotAnInteger)
    ELSE NotLowered(BadCommandAryth(cmd))

string(cmd, args, op, by) ==
    IF Len(args) = 1 THEN Lowered(Command(op, args[1], <<>>, by, <<>>, NoRange))
    ELSE NotLowered(BadCommandAryth(cmd))

keys(cmd, args, op) ==
    IF args = <<>> THEN NotLowered(BadCommandAryth(cmd))
    ELSE Lowered(Command(op, <<>>, <<>>, 0, args, NoRange))

key_range(cmd, args, op) ==
    IF Len(args) = 3
    THEN LET from == slice_to_i64(args[2])
             to   == slice_to_i64(args[3])
         IN  IF from.ok /\ to.ok
             THEN Lowered(Command(op, args[1], <<>>, 0, <<>>, IntRange(from.val, to.val)))
             ELSE NotLowered(NotAnInteger)
    ELSE NotLowered(BadCommandAryth(cmd))

key_range_opt(cmd, args, op) ==
    IF Len(args) = 1 THEN Lowered(Command(op, args[1], <<>>, 0, <<>>, NoRange))
    ELSE key_range(cmd, args, op)

key_values(cmd, args, op) ==
    IF Len(args) >= 1
    THEN Lowered(Command(op, args[1], <<>>, 0, Tail(args), NoRange))
    ELSE NotLowered(BadCommandAryth(cmd))

from_slice(s) ==
    IF s = <<>> THEN NotLowered(UnknownCommand(<<>>))
    ELSE LET cmd  == to_ascii_lowercase(s[1])
             args == Tail(s)
         IN  CASE cmd = <<"a", "p", "p", "e", "n", "d">> -> key_value(cmd, args, "Append")
               [] cmd = <<"r", "e", "n", "a", "m", "e">> -> key_value(cmd, args, "Rename")
               [] cmd = <<"s", "e", "t">> -> key_value(cmd, args, "Set")
               [] cmd = <<"d", "e", "c", "r">> -> string(cmd, args, "DecrBy", 1)
               [] cmd = <<"g", "e", "t">> -> string(cmd, args, "Get", 0)
               [] cmd = <<"i", "n", "c", "r">> -> string(cmd, args, "IncrBy", 1)
               [] cmd = <<"l", "l", "e", "n">> -> string(cmd, args, "LLen", 0)
               [] cmd = <<"l", "p", "o", "p">> -> string(cmd, args, "LPop", 0)
               [] cmd = <<"s", "t", "r", "l", "e", "n">> -> string(cmd, args, "Strlen", 0)
               [] cmd = <<"t", "y", "p", "e">> -> string(cmd, args, "Type", 0)
               [] cmd = <<"d", "e", "l">> -> keys(cmd, args, "Del")
               [] cmd = <<"e", "x", "i", "s", "t", "s">> -> keys(cmd, args, "Exists")
               [] cmd = <<"d", "e", "c", "r", "b", "y">> -> key_int(cmd, args, "DecrBy")
               [] cmd = <<"i", "n", "c", "r", "b", "y">> -> key_int(cmd, args, "IncrBy")
               [] cmd = <<"l", "i", "n", "d", "e", "x">> -> key_int(cmd, args, "LIndex")
               [] cmd = <<"b", "i", "t", "c", "o", "u", "n", "t">> -> key_range_opt(cmd, args,
                     "BitCount")
               [] cmd = <<"g", "e", "t", "r", "a", "n", "g", "e">> -> key_range(cmd, args,
                     "GetRange")
               [] cmd = <<"l", "p", "u", "s", "h">> -> key_values(cmd, args, "LPush")
               [] OTHER -> NotLowered(UnknownCommand(s[1]))

(***************************************************************************)
(* The reply encoder (resp.rs 17-82).                                      *)
(***************************************************************************)
CRLF == <<CR, LF>>

encode_return(ret) ==
    CASE ret.kind = "Ok" -> <<"+", "O", "K">> \o CRLF
      [] ret.kind = "Nil" -> <<"$", "-", "1">> \o CRLF
      [] ret.kind = "BulkString" ->
            <<"$">> \o format(Len(ret.bytes)) \o CRLF \o ret.bytes \o CRLF
      [] ret.kind = "Integer" -> <<":">> \o format(ret.int) \o CRLF
      [] ret.kind = "Size" -> <<":">> \o format(ret.int) \o CRLF
      [] ret.kind = "Type" -> <<"+">> \o ret.bytes \o CRLF

encode_error(err) ==
    <<"-">> \o
    (CASE err.kind = "NoSuchKey" -> <<"E", "R", "R", " ", "n", "o", " ", "s", "u", "c", "h",
          " ", "k", "e", "y">>
       [] err.kind = "WrongType" ->
            <<"W", "R", "O", "N", "G", "T", "Y", "P", "E", " ", "O", "p", "e", "r", "a", "t",
                  "i", "o", "n", " ", "a", "g", "a", "i", "n", "s", "t", " ", "a", " ", "k",
                  "e", "y", " ", "h", "o", "l", "d", "i", "n", "g", " ">>
            \o <<"t", "h", "e", " ", "w", "r", "o", "n", "g", " ", "k", "i", "n", "d", " ",
                  "o", "f", " ", "v", "a", "l", "u", "e">>
       [] err.kind = "UnknownCommand" ->
            <<"E", "R", "R", " ", "u", "n", "k", "n", "o", "w", "n", " ", "c", "o", "m", "m",
                  "a", "n", "d", " ", "'">> \o err.bytes \o <<"'">>
       [] err.kind = "BadCommandAryth" ->
            <<"E", "R", "R", " ", "w", "r", "o", "n", "g", " ", "n", "u", "m", "b", "e", "r",
                  " ", "o", "f", " ", "a", "r", "g", "u", "m", "e", "n", "t", "s", " ", "f",
                  "o", "r", " ", "'">>
            \o err.bytes \o <<"'", " ", "c", "o", "m", "m", "a", "n", "d">>
       [] err.kind = "NotAnInteger" ->
            <<"E", "R", "R", " ", "v", "a", "l", "u", "e", " ", "i", "s", " ", "n", "o", "t",
                  " ", "a", "n", " ", "i", "n", "t", "e", "g", "e", "r", " ", "o", "r", " ",
                  "o", "u", "t", " ", "o", "f", " ", "r", "a", "n", "g", "e">>
       [] err.kind = "IntegerOverflow" ->
            <<"E", "R", "R", " ", "i", "n", "c", "r", "e", "m", "e", "n", "t", " ", "o", "r",
                  " ", "d", "e", "c", "r", "e", "m", "e", "n", "t", " ", "w", "o", "u", "l",
                  "d", " ", "o", "v", "e", "r", "f", "l", "o", "w">>)
    \o CRLF

encode(result) == IF result.ok THEN encode_return(result) ELSE encode_error(result)

(***************************************************************************)
(* State.                                                                  *)
(***************************************************************************)
VARIABLES
    memory,           \* Database.memory, the keyspace
    command,          \* the command of the last direct call of Database::apply
    result,           \* what that call returned
    before            \* the keyspace when that call began

dbvars == <<memory, command, result, before>>

\* the connection workers of tcp.rs (one thread per accepted connection)
VARIABLES
    pc,         \* where each worker is in handle_client
    lock,       \* the worker holding the MutexGuard of the database, or 0
    poisoned,   \* the worker that panicked holding the guard, or 0
    cause,      \* why a worker left its loop: the call that panicked, or
                \* what decode returned when it broke out
    buffer,     \* buffer[0..size] of each worker, the bytes of its last read
    cmd,        \* the command each worker lowered from its buffer
    res,        \* the result each worker encodes
    seen,       \* the keyspace as apply found it on entry
    reads,      \* how many reads of each connection returned data
    received,   \* how many complete requests each connection has delivered
    serving,    \* the position, among those, of the request being served
    applied,    \* the position of the last request the worker applied
    replies,    \* how many replies each worker has written
    answered,   \* the position of the request its last reply answers
    last_reply, \* the bytes of the last reply each worker wrote
    serial,     \* the keyspace of a single-threaded database given the
                \* same commands in the order the workers applied them
    expected    \* what that database returned for each worker's command

tcpvars == <<pc, lock, poisoned, cause, buffer, cmd, res, seen, reads, received,
             serving, applied, replies, answered, last_reply, serial, expected>>

vars == <<memory, command, result, before, pc, lock, poisoned, cause, buffer, cmd,
          res, seen, reads, received, serving, applied, replies, answered, last_reply,
          serial, expected>>

Workers == 1..NWorkers

(***************************************************************************)
(* The inputs the commands are drawn from.                                 *)
(***************************************************************************)
Keys == {<<"k">>, <<"j">>}

\* values of SET: the empty string, integers written in and out of canonical
\* form, the extremes of i64, and text
SetValues ==
    {<<>>, <<"1">>, <<"+", "1">>, <<"0", "1">>, <<"a">>, format(I64Max), format(I64Min)}
AppendValues == {<<>>, <<"1">>, <<"a">>}
Deltas == {I64Min, 0 - 1, 1, I64Max}
Bounds == {I64Min, 0 - 2, 0 - 1, 0, 1}
Items == {<<"a">>, <<"b">>}
KeyLists == {<<k>> : k \in Keys} \cup {<<k1, k2>> : k1 \in Keys, k2 \in Keys}
ItemLists == {<<v>> : v \in Items} \cup {<<v1, v2>> : v1 \in Items, v2 \in Items}

\* the length of the string a key holds (0 when it holds none)
StoredLen(m, key) ==
    IF ~contains_key(m, key) THEN 0
    ELSE IF m[key].tag = "String" THEN Len(m[key].bytes)
    ELSE IF m[key].tag = "Integer" THEN Len(format(m[key].int))
    ELSE Len(m[key].list)

(***************************************************************************)
(* The engine on its own: one call of Database::apply per step, as the     *)
(* tests of database.rs and the repl make them.                            *)
(***************************************************************************)
InitDb ==
    /\ memory = EmptyMemory
    /\ command = NoCommand
    /\ result = ReturnOk
    /\ before = EmptyMemory

\* listen(): Database::new() behind a fresh Mutex, each worker at the top of
\* its loop
InitTcp ==
    /\ pc = [w \in Workers |-> "read"]
    /\ lock = 0
    /\ poisoned = 0
    /\ cause = [w \in Workers |-> "none"]
    /\ buffer = [w \in Workers |-> <<>>]
    /\ cmd = [w \in Workers |-> NoCommand]
    /\ res = [w \in Workers |-> ReturnOk]
    /\ seen = [w \in Workers |-> EmptyMemory]
    /\ reads = [w \in Workers |-> 0]
    /\ received = [w \in Workers |-> 0]
    /\ serving = [w \in Workers |-> 0]
    /\ applied = [w \in Workers |-> 0]
    /\ replies = [w \in Workers |-> 0]
    /\ answered = [w \in Workers |-> 0]
    /\ last_reply = [w \in Workers |-> <<>>]
    /\ serial = EmptyMemory
    /\ expected = [w \in Workers |-> ReturnOk]

Init == InitDb /\ InitTcp

\* The keyspaces explored: at most one key at a time holds a value other
\* than these three, which keeps the pairs of values finite and few.
PlainValues == {ValueString(<<"a">>), ValueInteger(1), ValueList(<<<<"a">>>>)}
Explored(m) == Cardinality({k \in DOMAIN m : m[k] \notin PlainValues}) <= 1

\* overflow_checks is the build's choice: arithmetic overflow panics when it
\* is on (debug builds) and wraps when it is off (release builds)
Outcomes(m, c) == {apply(m, c, overflow_checks) : overflow_checks \in BOOLEAN}

Call(c) ==
    \E o \in Outcomes(memory, c) :
        /\ Explored(o.memory)
        /\ memory' = o.memory
        /\ result' = o.result
        /\ command' = c
        /\ before' = memory
        /\ UNCHANGED tcpvars

ApplyAppend ==
    \E key \in Keys, value \in AppendValues :
        /\ StoredLen(memory, key) + Len(value) <= MaxLen
        /\ Call(CommandAppend(key, value))
ApplyBitCount ==
    \E key \in Keys :
        \/ Call(CommandBitCount(key, NoRange))
        \/ \E from \in Bounds, to \in Bounds : Call(CommandBitCount(key, IntRange(from, to)))
ApplyDecrBy == \E key \in Keys, by \in Deltas : Call(CommandDecrBy(key, by))
ApplyDel == \E ks \in KeyLists : Call(CommandDel(ks))
ApplyExists == \E ks \in KeyLists : Call(CommandExists(ks))
ApplyGet == \E key \in Keys : Call(CommandGet(key))
ApplyGetRange ==
    \E key \in Keys, from \in Bounds, to \in Bounds :
        Call(CommandGetRange(key, IntRange(from, to)))
ApplyIncrBy == \E key \in Keys, by \in Deltas : Call(CommandIncrBy(key, by))
ApplyLIndex == \E key \in Keys, index \in Bounds : Call(CommandLIndex(key, index))
ApplyLLen == \E key \in Keys : Call(CommandLLen(key))
ApplyLPop == \E key \in Keys : Call(CommandLPop(key))
ApplyLPush ==
    \E key \in Keys, values \in ItemLists :
        /\ StoredLen(memory, key) + Len(values) <= MaxList
        /\ Call(CommandLPush(key, values))
ApplyRename == \E key \in Keys, new_key \in Keys : Call(CommandRename(key, new_key))
ApplySet == \E key \in Keys, value \in SetValues : Call(CommandSet(key, value))
ApplyStrlen == \E key \in Keys : Call(CommandStrlen(key))
ApplyType == \E key \in Keys : Call(CommandType(key))

NextDb ==
    \/ ApplyAppend
    \/ ApplyBitCount
    \/ ApplyDecrBy
    \/ ApplyDel
    \/ ApplyExists
    \/ ApplyGet
    \/ ApplyGetRange
    \/ ApplyIncrBy
    \/ ApplyLIndex
    \/ ApplyLLen
    \/ ApplyLPop
    \/ ApplyLPush
    \/ ApplyRename
    \/ ApplySet
    \/ ApplyStrlen
    \/ ApplyType

Spec == Init /\ [][NextDb]_vars

(***************************************************************************)
(* The text tokenizer (line.rs 3-23, nom parsers).                         *)
(***************************************************************************)
not_multispace(c) == c \notin {" ", "\t", CR, LF}

RECURSIVE RunOfNotSpace(_)
RunOfNotSpace(i) ==
    IF i = <<>> \/ ~not_multispace(Head(i)) THEN 0 ELSE 1 + RunOfNotSpace(Tail(i))
RECURSIVE RunOfSpace(_)
RunOfSpace(i) ==
    IF i = <<>> \/ not_multispace(Head(i)) THEN 0 ELSE 1 + RunOfSpace(Tail(i))
RECURSIVE RunToQuote(_)
RunToQuote(i) ==
    IF i = <<>> \/ Head(i) = "\"" THEN 0 ELSE 1 + RunToQuote(Tail(i))

\* string: a token between double quotes, else the bytes up to a space
line_string(i) ==
    IF i # <<>> /\ Head(i) = "\"" /\ RunToQuote(Tail(i)) < Len(Tail(i))
    THEN LET n == RunToQuote(Tail(i))
         IN  [rest |-> Drop(i, n + 2), token |-> Take(Tail(i), n)]
    ELSE LET n == RunOfNotSpace(i)
         IN  [rest |-> Drop(i, n), token |-> Take(i, n)]

\* the loop of separated_list!(multispace, string) after the first token
RECURSIVE separated_rest(_, _)
separated_rest(input, tokens) ==
    LET sep == RunOfSpace(input)
        elt == line_string(Drop(input, sep))
    IN  IF sep = 0 \/ Len(elt.rest) = Len(input) - sep
        THEN [rest |-> input, tokens |-> tokens]
        ELSE separated_rest(elt.rest, Append(tokens, elt.token))

\* tokenize: separated_list!(multispace, string), then crlf
tokenize(i) ==
    LET first == line_string(i)
    IN  IF Len(first.rest) = Len(i) THEN [ParseError EXCEPT !.value = <<>>]
        ELSE LET l == separated_rest(first.rest, <<first.token>>)
                 c == crlf(l.rest)
             IN  IF c.status # "Done" THEN [c EXCEPT !.value = <<>>]
                 ELSE Done(c.rest, l.tokens)

(***************************************************************************)
(* What the peers send (the clients are not part of the repository).       *)
(***************************************************************************)
RECURSIVE RespBulks(_)
RespBulks(tokens) ==
    IF tokens = <<>> THEN <<>>
    ELSE <<"$">> \o format(Len(Head(tokens))) \o CRLF \o Head(tokens) \o CRLF
         \o RespBulks(Tail(tokens))

\* a request as a RESP array of bulk strings
RespRequest(tokens) == <<"*">> \o format(Len(tokens)) \o CRLF \o RespBulks(tokens)

ReqSet   == RespRequest(<< <<"S", "E", "T">>, <<"k">>, <<"1">> >>)
ReqIncr  == RespRequest(<< <<"I", "N", "C", "R">>, <<"k">> >>)
ReqGet   == RespRequest(<< <<"G", "E", "T">>, <<"k">> >>)
\* GET without its key: lowering answers BadCommandAryth
ReqGetNoKey == RespRequest(<< <<"G", "E", "T">> >>)
\* DECRBY k i64::MIN
ReqDecrByMin ==
    RespRequest(<< <<"D", "E", "C", "R", "B", "Y">>, <<"k">>, format(I64Min) >>)
\* INCRBY k i64::MAX: IntegerOverflow once k holds a positive integer
ReqIncrByMax ==
    RespRequest(<< <<"I", "N", "C", "R", "B", "Y">>, <<"k">>, format(I64Max) >>)
\* INCRBY k a: lowering answers NotAnInteger
ReqIncrByText ==
    RespRequest(<< <<"I", "N", "C", "R", "B", "Y">>, <<"k">>, <<"a">> >>)
\* a command the server does not know
ReqUnknown == RespRequest(<< <<"P", "I", "N", "G">> >>)
\* the text dialect: GET k
LineGet  == <<"G", "E", "T", " ", "k", CR, LF>>

WireRequests ==
    {ReqSet, ReqIncr, ReqGet, ReqGetNoKey, ReqDecrByMin, ReqIncrByMax, ReqIncrByText,
     ReqUnknown, LineGet}

\* What one read returns: the bytes, and how many complete requests they
\* hold.  TCP is a byte stream, so a read may return one request, the proper
\* prefix of one, or two that the peer pipelined.
Chunk(bytes, complete) == [bytes |-> bytes, complete |-> complete]
Chunks ==
    {Chunk(r, 1) : r \in WireRequests}
    \cup {Chunk(Take(ReqGet, n), 0) : n \in 1..(Len(ReqGet) - 1)}
    \cup {Chunk(ReqIncr \o ReqGet, 2)}

(***************************************************************************)
(* handle_client (tcp.rs 31-73), one action per blocking call.             *)
(***************************************************************************)
\* the filter_map of tcp.rs 39-47: the bulk strings of the array, in order
RECURSIVE bulk_strings(_)
bulk_strings(values) ==
    IF values = <<>> THEN <<>>
    ELSE (IF Head(values).type = "BulkString" THEN <<Head(values).bytes>> ELSE <<>>)
         \o bulk_strings(Tail(values))

\* a worker that answers malformed framing with an error reply and reads on
DispatchAnswersMalformed(bytes) ==
    LET d == decode(bytes)
    IN  IF d.status = "Done" /\ d.value.type = "Array"
        THEN LET l == from_slice(bulk_strings(d.value.array))
             IN  IF l.ok
                 THEN [next |-> "lock", cmd |-> l.command, res |-> ReturnOk,
                       cause |-> "none"]
                 ELSE [next |-> "reply", cmd |-> NoCommand, res |-> l.error,
                       cause |-> "none"]
        ELSE IF d.status = "Error"
        THEN [next |-> "reply", cmd |-> NoCommand, res |-> UnknownCommand(<<>>),
              cause |-> "none"]
        ELSE [next |-> "shutdown", cmd |-> NoCommand, res |-> ReturnOk,
              cause |-> IF d.status = "Done" THEN "not_array" ELSE "incomplete"]

\* tcp.rs 37-69: what the worker does with the bytes of a read
Dispatch(bytes) ==
    LET d == decode(bytes)
    IN  IF d.status = "Done" /\ d.value.type = "Array"
        THEN LET l == from_slice(bulk_strings(d.value.array))
             IN  IF l.ok
                 THEN [next |-> "lock", cmd |-> l.command, res |-> ReturnOk,
                       cause |-> "none"]
                 ELSE [next |-> "reply", cmd |-> NoCommand, res |-> l.error,
                       cause |-> "none"]
        ELSE [next |-> "shutdown", cmd |-> NoCommand, res |-> ReturnOk,
              cause |-> IF d.status = "Done" THEN "not_array"
                        ELSE IF d.status = "Error" THEN "error" ELSE "incomplete"]

\* the bytes of a read, decoded and lowered
Receive(w, chunk) ==
    LET d == Dispatch(chunk.bytes)
    IN  /\ buffer' = [buffer EXCEPT ![w] = chunk.bytes]
        /\ reads' = [reads EXCEPT ![w] = @ + 1]
        /\ received' = [received EXCEPT ![w] = @ + chunk.complete]
        /\ serving' = [serving EXCEPT ![w] = received[w] + 1]
        /\ pc' = [pc EXCEPT ![w] = d.next]
        /\ cmd' = [cmd EXCEPT ![w] = d.cmd]
        /\ res' = [res EXCEPT ![w] = d.res]
        /\ cause' = [cause EXCEPT ![w] = d.cause]

\* stream.read returns bytes
Read(w) ==
    /\ pc[w] = "read"
    /\ reads[w] < MaxReads
    /\ \E chunk \in Chunks : Receive(w, chunk)
    /\ UNCHANGED <<memory, command, result, before, lock, poisoned, seen, applied,
                   replies, answered, last_reply, serial, expected>>

\* stream.read returns 0: the peer closed; decode(&buffer[0..0]) is Incomplete
ReadEof(w) ==
    /\ pc[w] = "read"
    /\ pc' = [pc EXCEPT ![w] = Dispatch(<<>>).next]
    /\ cause' = [cause EXCEPT ![w] = Dispatch(<<>>).cause]
    /\ UNCHANGED <<memory, command, result, before, lock, poisoned, buffer, cmd,
                   res, seen, reads, received, serving, applied, replies, answered,
                   last_reply, serial, expected>>

\* stream.read returns Err: unwrap panics, the thread ends
ReadFails(w) ==
    /\ pc[w] = "read"
    /\ pc' = [pc EXCEPT ![w] = "panicked"]
    /\ cause' = [cause EXCEPT ![w] = "read"]
    /\ UNCHANGED <<memory, command, result, before, lock, poisoned, buffer, cmd,
                   res, seen, reads, received, serving, applied, replies, answered,
                   last_reply, serial, expected>>

\* a lock that never makes a thread wait
AcquirableAlways(w) == TRUE

\* Mutex::lock returns once no other thread holds the guard
Acquirable(w) == lock = 0

\* database.lock().unwrap() on a healthy mutex: the worker holds the guard
\* and enters Database::apply
Lock(w) ==
    /\ pc[w] = "lock"
    /\ Acquirable(w)
    /\ poisoned = 0
    /\ lock' = w
    /\ seen' = [seen EXCEPT ![w] = memory]
    /\ pc' = [pc EXCEPT ![w] = "apply"]
    /\ UNCHANGED <<memory, command, result, before, poisoned, cause, buffer, cmd,
                   res, reads, received, serving, applied, replies, answered,
                   last_reply, serial, expected>>

\* database.lock().unwrap() on a poisoned mutex: lock() returns Err, unwrap
\* panics and the guard inside the error is dropped
LockPoisoned(w) ==
    /\ pc[w] = "lock"
    /\ Acquirable(w)
    /\ poisoned # 0
    /\ pc' = [pc EXCEPT ![w] = "panicked"]
    /\ cause' = [cause EXCEPT ![w] = "lock"]
    /\ UNCHANGED <<memory, command, result, before, lock, poisoned, buffer, cmd,
                   res, seen, reads, received, serving, applied, replies, answered,
                   last_reply, serial, expected>>

\* database.apply(cmd) returns: the keyspace it found, changed as the
\* command says
Apply(w) ==
    /\ pc[w] = "apply"
    /\ \E overflow_checks \in BOOLEAN :
          LET o  == apply(seen[w], cmd[w], overflow_checks)
              so == apply(serial, cmd[w], overflow_checks)
          IN  /\ o.result # Panicked
              /\ memory' = o.memory
              /\ res' = [res EXCEPT ![w] = o.result]
              /\ serial' = so.memory
              /\ expected' = [expected EXCEPT ![w] = so.result]
    /\ applied' = [applied EXCEPT ![w] = serving[w]]
    /\ pc' = [pc EXCEPT ![w] = "write"]
    /\ UNCHANGED <<command, result, before, lock, poisoned, cause, buffer, cmd,
                   seen, reads, received, serving, replies, answered, last_reply>>

\* database.apply(cmd) panics (arithmetic overflow under overflow checks):
\* the guard is dropped by a panicking thread, which poisons the mutex
ApplyPanics(w) ==
    /\ pc[w] = "apply"
    /\ \E overflow_checks \in BOOLEAN :
          apply(seen[w], cmd[w], overflow_checks).result = Panicked
    /\ pc' = [pc EXCEPT ![w] = "panicked"]
    /\ cause' = [cause EXCEPT ![w] = "apply"]
    /\ poisoned' = w
    /\ lock' = 0
    /\ UNCHANGED <<memory, command, result, before, buffer, cmd, res, seen, reads,
                   received, serving, applied, replies, answered, last_reply,
                   serial, expected>>

\* a loop that an error reply ends
EndIterationBreaksOnError(w) ==
    /\ pc' = [pc EXCEPT ![w] = IF res[w].ok THEN "read" ELSE "shutdown"]
    /\ buffer' = [buffer EXCEPT ![w] = <<>>]
    /\ cmd' = [cmd EXCEPT ![w] = NoCommand]
    /\ res' = [res EXCEPT ![w] = ReturnOk]
    /\ seen' = [seen EXCEPT ![w] = EmptyMemory]
    /\ expected' = [expected EXCEPT ![w] = ReturnOk]

\* the end of an iteration of the loop: its locals are gone
EndIteration(w) ==
    /\ pc' = [pc EXCEPT ![w] = "read"]
    /\ buffer' = [buffer EXCEPT ![w] = <<>>]
    /\ cmd' = [cmd EXCEPT ![w] = NoCommand]
    /\ res' = [res EXCEPT ![w] = ReturnOk]
    /\ seen' = [seen EXCEPT ![w] = EmptyMemory]
    /\ expected' = [expected EXCEPT ![w] = ReturnOk]

\* encode(&res, &mut stream) succeeds, then the guard goes out of scope
Write(w) ==
    /\ pc[w] = "write"
    /\ last_reply' = [last_reply EXCEPT ![w] = encode(res[w])]
    /\ replies' = [replies EXCEPT ![w] = @ + 1]
    /\ answered' = [answered EXCEPT ![w] = serving[w]]
    /\ lock' = 0
    /\ EndIteration(w)
    /\ UNCHANGED <<memory, command, result, before, poisoned, cause, reads,
                   received, serving, applied, serial>>

\* encode(&res, &mut stream) returns Err: unwrap panics while the guard is
\* alive, which poisons the mutex
WriteFails(w) ==
    /\ pc[w] = "write"
    /\ pc' = [pc EXCEPT ![w] = "panicked"]
    /\ cause' = [cause EXCEPT ![w] = "write"]
    /\ poisoned' = w
    /\ lock' = 0
    /\ UNCHANGED <<memory, command, result, before, buffer, cmd, res, seen, reads,
                   received, serving, applied, replies, answered, last_reply,
                   serial, expected>>

\* encode(&Err(err), &mut stream) succeeds (no guard is held)
Reply(w) ==
    /\ pc[w] = "reply"
    /\ last_reply' = [last_reply EXCEPT ![w] = encode(res[w])]
    /\ replies' = [replies EXCEPT ![w] = @ + 1]
    /\ answered' = [answered EXCEPT ![w] = serving[w]]
    /\ EndIteration(w)
    /\ UNCHANGED <<memory, command, result, before, lock, poisoned, cause, reads,
                   received, serving, applied, serial>>

\* encode(&Err(err), &mut stream) returns Err: unwrap panics
ReplyFails(w) ==
    /\ pc[w] = "reply"
    /\ pc' = [pc EXCEPT ![w] = "panicked"]
    /\ cause' = [cause EXCEPT ![w] = "reply"]
    /\ UNCHANGED <<memory, command, result, before, lock, poisoned, buffer, cmd,
                   res, seen, reads, received, serving, applied, replies, answered,
                   last_reply, serial, expected>>

\* a thread that ends with the guard of the keyspace forgotten, not dropped
ShutdownHoldingLock(w) ==
    /\ pc[w] = "shutdown"
    /\ pc' = [pc EXCEPT ![w] = "done"]
    /\ buffer' = [buffer EXCEPT ![w] = <<>>]
    /\ lock' = w
    /\ UNCHANGED <<memory, command, result, before, poisoned, cause, cmd,
                   res, seen, reads, received, serving, applied, replies, answered,
                   last_reply, serial, expected>>

\* after break: stream.shutdown(Shutdown::Both), and the thread ends
Shutdown(w) ==
    /\ pc[w] = "shutdown"
    /\ pc' = [pc EXCEPT ![w] = "done"]
    /\ buffer' = [buffer EXCEPT ![w] = <<>>]
    /\ UNCHANGED <<memory, command, result, before, lock, poisoned, cause, cmd,
                   res, seen, reads, received, serving, applied, replies, answered,
                   last_reply, serial, expected>>

NextTcp ==
    \E w \in Workers :
        \/ Read(w)
        \/ ReadEof(w)
        \/ ReadFails(w)
        \/ Lock(w)
        \/ LockPoisoned(w)
        \/ Apply(w)
        \/ ApplyPanics(w)
        \/ Write(w)
        \/ WriteFails(w)
        \/ Reply(w)
        \/ ReplyFails(w)
        \/ Shutdown(w)

SpecTcp == Init /\ [][NextTcp]_vars

(***************************************************************************)
(* The workers under a fair scheduler.  A thread that can take a step of   *)
(* its own takes it; what a peer does (send, close, drain its socket) is   *)
(* not promised, and the peer of one connection never drains its socket,   *)
(* so that connection's writes may block for ever (tcp.rs 31-73).          *)
(***************************************************************************)
\* the connection whose peer never drains its socket
Stalled == CHOOSE w \in Workers : TRUE

\* the steps of a worker that wait for nothing but the scheduler and the
\* mutex
FairSteps(w) ==
    \/ Lock(w)
    \/ LockPoisoned(w)
    \/ Apply(w)
    \/ ApplyPanics(w)
    \/ Shutdown(w)
    \/ (w # Stalled /\ (Write(w) \/ Reply(w)))

SpecStall == Init /\ [][NextTcp]_vars /\ \A w \in Workers : WF_vars(FairSteps(w))

(***************************************************************************)
(* One connection on its own, sent every short request: the decoder, the   *)
(* lowering and the encoder on inputs of every shape (tcp.rs 31-73 with    *)
(* one client).                                                            *)
(***************************************************************************)
\* the names of commands.rs 133-150
CommandNames ==
    {<<"a", "p", "p", "e", "n", "d">>, <<"r", "e", "n", "a", "m", "e">>, <<"s", "e", "t">>,
     <<"d", "e", "c", "r">>, <<"g", "e", "t">>, <<"i", "n", "c", "r">>,
     <<"l", "l", "e", "n">>, <<"l", "p", "o", "p">>, <<"s", "t", "r", "l", "e", "n">>,
     <<"t", "y", "p", "e">>, <<"d", "e", "l">>, <<"e", "x", "i", "s", "t", "s">>,
     <<"d", "e", "c", "r", "b", "y">>, <<"i", "n", "c", "r", "b", "y">>,
     <<"l", "i", "n", "d", "e", "x">>, <<"b", "i", "t", "c", "o", "u", "n", "t">>,
     <<"g", "e", "t", "r", "a", "n", "g", "e">>, <<"l", "p", "u", "s", "h">>}

\* first tokens: each name, one in capitals, one no command has, and one of
\* the bytes CR LF
FirstTokens == CommandNames \cup {<<"G", "E", "T">>, <<"p", "i", "n", "g">>, <<CR, LF>>}

\* arguments: one that is no number and one that is
ArgTokens == {<<"k">>, <<"1">>}
ArgLists == UNION {[1..n -> ArgTokens] : n \in 0..MaxArgs}

TokenVectors ==
    {<<>>}
    \cup {<<name>> \o args : name \in FirstTokens, args \in ArgLists}
    \cup {<< <<"i", "n", "c", "r", "b", "y">>, <<"k">>, format(I64Max) >>,
          << <<"d", "e", "c", "r", "b", "y">>, <<"k">>, format(I64Min) >>,
          << <<"l", "i", "n", "d", "e", "x">>, <<"k">>, format(I64Min) >>,
          << <<"g", "e", "t">>, <<CR, LF>> >>}

\* bulk strings on their own: whole, cut short inside the payload, and with
\* something else than CRLF after the payload
PayloadBytes == {"a", CR, LF}
Payloads == UNION {[1..n -> PayloadBytes] : n \in 0..MaxLen}
BulkHeader(n) == <<"$">> \o format(n) \o CRLF
BulkFrame(s) == BulkHeader(Len(s)) \o s \o CRLF
ShortBulks ==
    UNION {{BulkHeader(Len(s)) \o Take(s, m) : m \in 0..(Len(s) - 1)} : s \in Payloads}
WrongEnds == {<<b1, b2>> : b1 \in PayloadBytes, b2 \in PayloadBytes} \ {CRLF}
LoneEnds == {<<"a">>, <<LF>>}
BadBulks == {BulkHeader(Len(s)) \o s \o t : s \in Payloads, t \in WrongEnds \cup LoneEnds}

ConnChunks ==
    {Chunk(RespRequest(tokens), 1) : tokens \in TokenVectors}
    \cup {Chunk(BulkFrame(s), 0) : s \in Payloads}
    \cup {Chunk(bytes, 0) : bytes \in ShortBulks \cup BadBulks}

\* the worker of the one connection
Conn == CHOOSE w \in Workers : TRUE

\* stream.read returns one of these inputs
ReadConn ==
    /\ pc[Conn] = "read"
    /\ reads[Conn] < MaxReads
    /\ \E chunk \in ConnChunks : Receive(Conn, chunk)
    /\ UNCHANGED <<memory, command, result, before, lock, poisoned, seen, applied,
                   replies, answered, last_reply, serial, expected>>

\* no LockPoisoned: the only thread that can poison the mutex is the one
\* that would find it poisoned, and it has ended by then
NextConn ==
    \/ ReadConn
    \/ ReadEof(Conn)
    \/ ReadFails(Conn)
    \/ Lock(Conn)
    \/ Apply(Conn)
    \/ ApplyPanics(Conn)
    \/ Write(Conn)
    \/ WriteFails(Conn)
    \/ Reply(Conn)
    \/ ReplyFails(Conn)
    \/ Shutdown(Conn)

SpecConn == Init /\ [][NextConn]_vars

(***************************************************************************)
(* One connection sent request arrays in which one element is not a bulk   *)
(* string (tcp.rs 37-58 on arrays of mixed elements).                      *)
(***************************************************************************)
BaseVectors ==
    {<< <<"S", "E", "T">>, <<"k">>, <<"1">> >>,
     << <<"G", "E", "T">>, <<"k">> >>,
     << <<"L", "P", "U", "S", "H">>, <<"k">>, <<"a">> >>,
     << <<"D", "E", "L">>, <<"k">>, <<"j">> >>,
     << <<"G", "E", "T">> >>}

\* an integer, a simple string, an error, a null and an array, encoded
OtherElements ==
    {<<":", "1">> \o CRLF, <<"+", "O", "K">> \o CRLF, <<"-", "E", "R", "R">> \o CRLF,
     <<"$", "-", "1">> \o CRLF, <<"*", "0">> \o CRLF}

\* the tokens with one more element put after the first n of them
MixedArray(tokens, n, element) ==
    <<"*">> \o format(Len(tokens) + 1) \o CRLF
    \o RespBulks(Take(tokens, n)) \o element \o RespBulks(Drop(tokens, n))

MixedChunks ==
    {Chunk(RespRequest(tokens), 1) : tokens \in BaseVectors}
    \cup UNION {{Chunk(MixedArray(tokens, n, e), 1) : n \in 0..Len(tokens), e \in OtherElements}
                : tokens \in BaseVectors}

\* stream.read returns one of these arrays
ReadMixed ==
    /\ pc[Conn] = "read"
    /\ reads[Conn] < MaxReads
    /\ \E chunk \in MixedChunks : Receive(Conn, chunk)
    /\ UNCHANGED <<memory, command, result, before, lock, poisoned, seen, applied,
                   replies, answered, last_reply, serial, expected>>

\* none of these requests can make apply panic
NextMixed ==
    \/ ReadMixed
    \/ ReadEof(Conn)
    \/ ReadFails(Conn)
    \/ Lock(Conn)
    \/ Apply(Conn)
    \/ Write(Conn)
    \/ WriteFails(Conn)
    \/ Reply(Conn)
    \/ ReplyFails(Conn)
    \/ Shutdown(Conn)

SpecMixed == Init /\ [][NextMixed]_vars

(***************************************************************************)
(* The engine's contract (spec sections 3, 4.1, 7 and 8), checked under    *)
(* Spec.                                                                   *)
(***************************************************************************)
EngineErrors == {"NoSuchKey", "WrongType", "NotAnInteger", "IntegerOverflow"}

\* C1: a call of Database::apply that returns an error (NoSuchKey,
\* WrongType, NotAnInteger, IntegerOverflow) leaves the keyspace as it was:
\* the same keys, each with the same tag and contents.
C1_ErrorLeavesKeyspace ==
    (~result.ok /\ result.kind \in EngineErrors) => memory = before

\* C1's case: an INCRBY that overflowed on a key holding an integer
C1_Witness ==
    /\ command.op = "IncrBy"
    /\ result = IntegerOverflow
    /\ before[command.key].tag = "Integer"

\* C2: after SET k v, GET k returns a BulkString of exactly the bytes v,
\* whether or not v parses as an integer.
C2_SetGetRoundTrip ==
    (command.op = "Set" /\ result = ReturnOk)
        => get(memory, command.key) = ReturnBulkString(command.value)

\* the result x + d (INCRBY) or x - d (DECRBY) as the mathematical integer
Arithmetic(c, x) == IF c.op = "IncrBy" THEN x + c.by ELSE x - c.by

\* C3: on a key holding Integer x, INCRBY k d and DECRBY k d return
\* IntegerOverflow and keep x (GET renders x) when x + d, resp. x - d, is
\* outside i64, and otherwise store and return exactly that number.
C3_ArithmeticNeverWraps ==
    (/\ command.op \in {"IncrBy", "DecrBy"}
     /\ contains_key(before, command.key)
     /\ before[command.key].tag = "Integer")
        => LET x == before[command.key].int
               r == Arithmetic(command, x)
           IN  IF InI64(r)
               THEN /\ result = ReturnInteger(r)
                    /\ memory[command.key] = ValueInteger(r)
               ELSE /\ result = IntegerOverflow
                    /\ memory[command.key] = ValueInteger(x)
                    /\ get(memory, command.key) = ReturnBulkString(format(x))

\* C4: DECRBY k d with d = i64::MIN returns IntegerOverflow whatever k
\* holds, and leaves the keyspace unchanged.
C4_DecrByMinOverflows ==
    (command.op = "DecrBy" /\ command.by = I64Min)
        => (result = IntegerOverflow /\ memory = before)

(***************************************************************************)
(* The connection layer's contract, checked under SpecTcp.                 *)
(***************************************************************************)
InsideApply == {w \in Workers : pc[w] = "apply"}

\* C5: linearization.  At most one worker is inside Database::apply at a
\* time; the keyspace always equals the one obtained by applying the commands
\* one at a time in the order the workers entered apply; the reply a worker is
\* about to write is the reply of that one-at-a-time application; and that
\* order keeps each connection's request order (a worker applies requests at
\* increasing positions of its connection).
C5_Linearizable ==
    /\ Cardinality(InsideApply) <= 1
    /\ memory = serial
    /\ \A w \in Workers :
          /\ pc[w] = "write" => (res[w] = expected[w] /\ applied[w] = serving[w])
          /\ pc[w] = "apply" => (lock = w /\ seen[w] = memory /\ applied[w] < serving[w])

\* Two workers have each applied a command on the same key, and the second
\* one's reply counts the first one's effect.
C5_Witness ==
    /\ \A w \in Workers : applied[w] >= 1
    /\ \E w \in Workers : pc[w] = "write" /\ res[w] = ReturnInteger(2)
    /\ contains_key(memory, <<"k">>) /\ memory[<<"k">>] = ValueInteger(2)

\* C6: lock discipline.  A worker that is in a socket read or a socket write
\* (the write of the reply of the command it just applied included) does not
\* hold the keyspace lock.
C6_LockOnlyAcrossApply ==
    \A w \in Workers : pc[w] \in {"read", "write", "reply"} => lock # w

\* C7: connection isolation.  A failed socket read or write stops only the
\* worker of that connection: no other worker is ever stopped at the lock
\* because a worker's write failed.
C7_IoFailureStopsOneWorker ==
    \A w \in Workers :
        (pc[w] = "panicked" /\ cause[w] = "lock")
            => ~(poisoned # 0 /\ cause[poisoned] = "write")

\* C8: per-connection ordering.  The i-th reply written on a connection
\* answers the i-th request received on it.
C8_RepliesInRequestOrder ==
    \A w \in Workers : replies[w] > 0 => answered[w] = replies[w]

IsProperPrefix(b, r) == b # <<>> /\ Len(b) < Len(r) /\ Take(r, Len(b)) = b

\* C9: partial input is not fatal.  A worker whose read delivered only a
\* proper prefix of a well-formed RESP request does not leave its loop (it
\* keeps the connection open to read the rest).
C9_PartialInputKeepsConnection ==
    \A w \in Workers :
        (\E r \in WireRequests : Head(r) = "*" /\ IsProperPrefix(buffer[w], r))
            => pc[w] # "shutdown"

\* C10: format dispatch.  A request whose first byte is not '*' and that the
\* text tokenizer splits into tokens that lower to a command is on its way to
\* apply under the lock; it does not make the worker leave its loop.
C10_TextLineIsServed ==
    \A w \in Workers :
        LET t == tokenize(buffer[w])
        IN  (/\ buffer[w] # <<>>
             /\ Head(buffer[w]) # "*"
             /\ t.status = "Done"
             /\ from_slice(t.value).ok)
                => pc[w] \in {"lock", "apply", "write"}

ErrorPending(w) == pc[w] \in {"write", "reply"} /\ ~res[w].ok

\* C11: errors are not fatal to the connection.  A worker whose request
\* yielded a lowering error or an engine error has left the keyspace as it
\* found it; unless the socket write itself fails, its next step writes exactly
\* one reply, the RESP error line of that error, changes nothing in the
\* keyspace, leaves the lock free of this worker (released, when it was
\* held for apply) and puts the worker back at the read of its loop.
C11_ErrorsNotFatal ==
    /\ [](\A w \in Workers :
            /\ (pc[w] = "write" /\ ~res[w].ok) => (lock = w /\ memory = seen[w])
            /\ pc[w] = "reply" => (~res[w].ok /\ lock # w))
    /\ [][\A w \in Workers :
            (ErrorPending(w) /\ pc'[w] # pc[w]) =>
                \/ /\ pc'[w] = "read"
                   /\ replies'[w] = replies[w] + 1
                   /\ last_reply'[w] = encode(res[w])
                   /\ Head(last_reply'[w]) = "-"
                   /\ memory' = memory
                   /\ lock' = IF pc[w] = "write" THEN 0 ELSE lock
                \/ /\ pc'[w] = "panicked"
                   /\ cause'[w] \in {"write", "reply"}]_vars

\* One worker has answered an engine error, another a lowering error; both
\* are back at the read of their loops and the lock is free.
C11_Witness ==
    \E w \in Workers, v \in Workers :
        /\ pc[w] = "read" /\ reads[w] < MaxReads
        /\ last_reply[w] = encode(IntegerOverflow)
        /\ pc[v] = "read" /\ replies[v] = 2
        /\ last_reply[v] = encode(BadCommandAryth(<<"g", "e", "t">>))
        /\ lock = 0
        /\ memory # EmptyMemory

ShownBytes(m, key) ==
    IF m[key].tag = "String" THEN m[key].bytes ELSE format(m[key].int)

HoldsBytes(m, key) == contains_key(m, key) /\ m[key].tag \in {"String", "Integer"}

\* a bound of a range against a length L: a negative bound b is
\* max(0, L - |b|), a non-negative bound is used as is
ResolvedBound(b, L) == IF b >= 0 THEN b ELSE IF L + b < 0 THEN 0 ELSE L + b

\* the inclusive window [s, e] of the bytes, e clamped to L - 1, empty when
\* L = 0 or s > e
InclusiveWindow(bytes, start, end) ==
    LET L == Len(bytes)
        s == ResolvedBound(start, L)
        e == Min(ResolvedBound(end, L), L - 1)
    IN  IF L = 0 \/ s > e THEN <<>> ELSE SubSeq(bytes, s + 1, e + 1)

\* C13: range resolution.  GETRANGE key start end on a key holding bytes,
\* whenever it returns at all, returns exactly the inclusive window of those
\* bytes, each negative bound b resolved to max(0, L - |b|); so an end of -n
\* selects bytes up to and including position L - n.
C13_RangeResolution ==
    (command.op = "GetRange" /\ HoldsBytes(before, command.key)
            /\ result # Panicked)
        => result = ReturnBulkString(
               InclusiveWindow(ShownBytes(before, command.key),
                               command.range.start, command.range.end))

\* C14: re-tagging.  A key holding bytes is tagged Integer if and only if
\* those bytes parse as a signed 64-bit base-10 integer (the bytes of a
\* String key are only ever produced by SET and APPEND).
C14_TagFollowsBytes ==
    \A key \in DOMAIN memory :
        HoldsBytes(memory, key)
            => (memory[key].tag = "Integer"
                    <=> from_str_radix(ShownBytes(memory, key)).ok)

\* C15: the Size an APPEND returns is what STRLEN returns right after it.
C15_AppendSizeIsStrlen ==
    (command.op = "Append" /\ result.ok) => result = strlen(memory, command.key)

\* C16: RENAME k k' answers NoSuchKey on an absent k and changes nothing; on
\* a present k it answers Ok, k' then holds exactly what k held, k is absent
\* when k # k', and every other key is as it was.
C16_Rename ==
    command.op = "Rename" =>
        LET k == command.key
            new_k == command.value
        IN  IF ~contains_key(before, k)
            THEN result = NoSuchKey /\ memory = before
            ELSE /\ result = ReturnOk
                 /\ contains_key(memory, new_k) /\ memory[new_k] = before[k]
                 /\ k # new_k => ~contains_key(memory, k)
                 /\ DOMAIN memory = ((DOMAIN before) \ {k}) \cup {new_k}
                 /\ \A other \in (DOMAIN before) \ {k, new_k} :
                        memory[other] = before[other]

\* RENAME moved a value onto a key that held a different one.
C16_Witness ==
    /\ command.op = "Rename" /\ result = ReturnOk
    /\ command.key # command.value
    /\ contains_key(before, command.value)
    /\ before[command.value] # before[command.key]
    /\ before[command.key].tag = "List"

\* C17: EXISTS returns the number of argument positions whose key is
\* present, whatever the keys hold, and leaves the keyspace as it was.
C17_ExistsCountsPositions ==
    command.op = "Exists" =>
        /\ result = ReturnSize(Cardinality({i \in 1..Len(command.keys) :
                                   contains_key(before, command.keys[i])}))
        /\ memory = before

\* EXISTS k k on a present list key answered 2.
C17_Witness ==
    /\ command.op = "Exists" /\ result = ReturnSize(2)
    /\ command.keys[1] = command.keys[2]
    /\ before[command.keys[1]].tag = "List"

Listed(ks) == {ks[i] : i \in 1..Len(ks)}

\* C18: DEL returns the number of distinct listed keys that were present;
\* afterwards no listed key is present, every unlisted key is as it was, and
\* the same DEL again returns 0.
C18_Del ==
    command.op = "Del" =>
        /\ result = ReturnSize(Cardinality(Listed(command.keys) \cap DOMAIN before))
        /\ DOMAIN memory = (DOMAIN before) \ Listed(command.keys)
        /\ \A other \in DOMAIN memory : memory[other] = before[other]
        /\ del(memory, command.keys).result = ReturnSize(0)

\* DEL k k removed a present key and counted it once, next to a key it
\* left alone.
C18_Witness ==
    /\ command.op = "Del" /\ result = ReturnSize(1)
    /\ Len(command.keys) = 2 /\ command.keys[1] = command.keys[2]
    /\ contains_key(before, command.keys[1])
    /\ memory # EmptyMemory

\* C19: INCRBY k d on a key holding Integer x with x + d in range, followed
\* by DECRBY k d, succeeds twice and leaves k holding Integer x.
C19_IncrDecrInverse ==
    [][(/\ command.op = "IncrBy" /\ result.ok
        /\ contains_key(before, command.key)
        /\ before[command.key].tag = "Integer"
        /\ command'.op = "DecrBy"
        /\ command'.key = command.key /\ command'.by = command.by)
            => /\ result'.ok
               /\ memory'[command.key] = before[command.key]]_vars

RECURSIVE Reversed(_)
Reversed(values) ==
    IF values = <<>> THEN <<>> ELSE Append(Reversed(Tail(values)), Head(values))

\* C20: after LPUSH k v1 ... vn on a key that was absent or held the list
\* h1 ... hm, the list is vn ... v1 h1 ... hm, and LINDEX k i is v(n-i) for
\* 0 <= i < n.
C20_LPushOrder ==
    (command.op = "LPush" /\ result.ok) =>
        LET k == command.key
            values == command.keys
            n == Len(values)
            old == IF contains_key(before, k) THEN before[k].list ELSE <<>>
        IN  /\ memory[k] = ValueList(Reversed(values) \o old)
            /\ \A i \in 0..(n - 1), overflow_checks \in BOOLEAN :
                   lindex(memory, k, i, overflow_checks)
                       = ReturnBulkString(values[n - i])

\* LPUSH put two different values in front of a list that had an element.
C20_Witness ==
    /\ command.op = "LPush" /\ result = ReturnSize(3)
    /\ Len(command.keys) = 2 /\ command.keys[1] # command.keys[2]
    /\ contains_key(before, command.key) /\ Len(before[command.key].list) = 1

\* the number of elements of the list at a key (0 when the key holds none)
ListLen(m, key) ==
    IF contains_key(m, key) /\ m[key].tag = "List" THEN Len(m[key].list) ELSE 0
HoldsList(m, key) == contains_key(m, key) /\ m[key].tag = "List"

\* C21: list length accounting.  Each successful LPUSH k adds the number of
\* its values to the length of k (starting from 0 when it creates k) and
\* returns the Size that LLEN k observes right after it; each LPOP k takes
\* one element off exactly when it returns an element; no other command
\* changes the length of a list that stays at k; LLEN returns the length of
\* the list and 0 for a missing key.
C21_ListLengthAccounting ==
    \A k \in Keys :
        /\ (command.op = "LPush" /\ command.key = k /\ result.ok) =>
              /\ HoldsList(memory, k)
              /\ ListLen(memory, k) = ListLen(before, k) + Len(command.keys)
              /\ result = ReturnSize(ListLen(memory, k))
              /\ llen(memory, k) = result
        /\ (command.op = "LPop" /\ command.key = k /\ HoldsList(before, k)) =>
              /\ HoldsList(memory, k)
              /\ ListLen(memory, k) + (IF result.kind = "BulkString" THEN 1 ELSE 0)
                    = ListLen(before, k)
              /\ (result.kind = "BulkString") = (ListLen(before, k) > 0)
        /\ (command.op = "LLen" /\ command.key = k) =>
              /\ memory = before
              /\ ~contains_key(before, k) => result = ReturnSize(0)
              /\ HoldsList(before, k) => result = ReturnSize(ListLen(before, k))
        /\ (/\ HoldsList(before, k) /\ HoldsList(memory, k)
            /\ ~(command.op \in {"LPush", "LPop"} /\ command.key = k)
            /\ ~(command.op = "Rename" /\ command.value = k)) =>
              ListLen(memory, k) = ListLen(before, k)

\* a second LPUSH has grown a list to three elements and answered 3
C21_Witness ==
    /\ command.op = "LPush"
    /\ HoldsList(before, command.key)
    /\ ListLen(before, command.key) = 1
    /\ Len(command.keys) = 2
    /\ result = ReturnSize(3)

\* C22: LINDEX k i on a list of length L returns the element at position i
\* when 0 <= i < L, the element at position L + i when -L <= i < 0, and Nil
\* for every other index, the smallest one included, or when the key is
\* missing; it does not fail.
C22_LIndex ==
    (command.op = "LIndex" /\ ~HoldsBytes(before, command.key)) =>
        LET L == ListLen(before, command.key)
            i == command.by
        IN  /\ memory = before
            /\ result = IF ~contains_key(before, command.key) THEN ReturnNil
                        ELSE IF 0 <= i /\ i < L
                        THEN ReturnBulkString(before[command.key].list[i + 1])
                        ELSE IF 0 - L <= i /\ i < 0
                        THEN ReturnBulkString(before[command.key].list[L + i + 1])
                        ELSE ReturnNil

\* C23: type protection.  GET, STRLEN, APPEND, BITCOUNT and GETRANGE on a
\* key holding a List, and LPUSH, LLEN, LINDEX and LPOP on a key holding a
\* String or an Integer, return WrongType and leave the keyspace as it was.
C23_TypeProtection ==
    /\ (/\ command.op \in {"Get", "Strlen", "Append", "BitCount", "GetRange"}
        /\ HoldsList(before, command.key)) =>
            result = WrongType /\ memory = before
    /\ (/\ command.op \in {"LPush", "LLen", "LIndex", "LPop"}
        /\ HoldsBytes(before, command.key)) =>
            result = WrongType /\ memory = before

\* GET was refused on a list of one element, which a further LPUSH of one
\* value would take to two
C23_Witness ==
    /\ command.op = "Get"
    /\ HoldsList(before, command.key)
    /\ result = WrongType
    /\ lpush(memory, command.key, <<<<"a">>>>).result = ReturnSize(2)

\* C24: each present key holds a value of exactly one tag, and TYPE k
\* returns none exactly when k is absent, list exactly when k holds a List
\* and string when k holds a String or an Integer.
C24_Type ==
    /\ \A k \in DOMAIN memory :
          /\ memory[k].tag \in {"String", "Integer", "List"}
          /\ memory[k] \in {ValueString(memory[k].bytes), ValueInteger(memory[k].int),
                            ValueList(memory[k].list)}
    /\ command.op = "Type" =>
          /\ memory = before
          /\ result.ok /\ result.kind = "Type"
          /\ (result.bytes = TypeNone) = ~contains_key(before, command.key)
          /\ (result.bytes = TypeList) = HoldsList(before, command.key)
          /\ (result.bytes = TypeString) = HoldsBytes(before, command.key)

\* TYPE answered string for a key holding an Integer
C24_Witness ==
    /\ command.op = "Type"
    /\ contains_key(before, command.key)
    /\ before[command.key].tag = "Integer"
    /\ result = ReturnType(TypeString)

\* C25: SET k v followed by STRLEN k returns the Size of the byte length of
\* v; STRLEN k returns the length of the BulkString that GET k returns, and
\* 0 for a missing key.
C25_SetThenStrlen ==
    /\ [](command.op = "Strlen" =>
            /\ ~contains_key(before, command.key) => result = ReturnSize(0)
            /\ HoldsBytes(before, command.key) =>
                  result = ReturnSize(Len(get(before, command.key).bytes)))
    /\ [][(/\ command.op = "Set"
           /\ command'.op = "Strlen"
           /\ command'.key = command.key) =>
              result' = ReturnSize(Len(command.value))]_vars

\* C26: BITCOUNT k returns the number of 1 bits of the bytes GET k returns,
\* BITCOUNT k start end the number of 1 bits of the bytes GETRANGE k start
\* end returns, for every signed start and end, and both return 0 on a
\* missing key.
C26_BitCountAgrees ==
    (command.op = "BitCount" /\ ~HoldsList(before, command.key)) =>
        IF ~contains_key(before, command.key) THEN result = ReturnSize(0)
        ELSE IF ~command.range.some
        THEN result = ReturnSize(SumBits(get(before, command.key).bytes))
        ELSE \E overflow_checks \in BOOLEAN :
                result = ReturnSize(SumBits(
                    get_range(before, command.key, command.range, overflow_checks).bytes))

\* C30: INCRBY k d on a key that is absent or holds the empty String stores
\* Integer(d) and returns Integer(d), DECRBY k d stores and returns -d, and
\* GET k then returns the decimal rendering of that number.
C30_CountFromNothing ==
    (/\ command.op \in {"IncrBy", "DecrBy"}
     /\ \/ ~contains_key(before, command.key)
        \/ before[command.key] = ValueString(<<>>)) =>
        LET d == IF command.op = "IncrBy" THEN command.by ELSE 0 - command.by
        IN  /\ result = ReturnInteger(d)
            /\ contains_key(memory, command.key)
            /\ memory[command.key] = ValueInteger(d)
            /\ get(memory, command.key) = ReturnBulkString(format(d))

(***************************************************************************)
(* More of the engine's contract, checked under Spec.                      *)
(***************************************************************************)
\* C31: INCRBY, DECRBY, INCR and DECR on a key holding a non-empty String or
\* a List return NotAnInteger and leave the value as it was.
C31_CountingNeedsInteger ==
    (/\ command.op \in {"IncrBy", "DecrBy"}
     /\ \/ HoldsList(before, command.key)
        \/ /\ contains_key(before, command.key)
           /\ before[command.key].tag = "String"
           /\ before[command.key].bytes # <<>>) =>
        result = NotAnInteger /\ memory = before

\* C32: LPOP drain.  LPOP k on a list returns its head and leaves the rest,
\* and returns Nil once the list is empty; the LPOP that takes the last
\* element leaves the key in place, holding an empty list, for which TYPE
\* answers list, LLEN 0 and EXISTS 1; the empty list stays until DEL, RENAME
\* or SET removes or replaces it (or LPUSH fills it again).
C32_LPopDrain ==
    /\ (command.op = "LPop" /\ HoldsList(before, command.key)) =>
          LET list == before[command.key].list
          IN  /\ HoldsList(memory, command.key)
              /\ list # <<>> =>
                    /\ result = ReturnBulkString(Head(list))
                    /\ memory = insert(before, command.key, ValueList(Tail(list)))
              /\ list = <<>> => result = ReturnNil /\ memory = before
    /\ \A k \in Keys :
          (HoldsList(before, k) /\ before[k].list = <<>>) =>
              /\ (command.op = "Type" /\ command.key = k) => result = ReturnType(TypeList)
              /\ (command.op = "LLen" /\ command.key = k) => result = ReturnSize(0)
              /\ (command.op = "Exists" /\ command.keys = <<k>>) => result = ReturnSize(1)
              /\ (/\ ~(command.op = "Del" /\ \E n \in 1..Len(command.keys) :
                                                  command.keys[n] = k)
                  /\ ~(command.op = "Rename" /\ k \in {command.key, command.value})
                  /\ ~(command.op \in {"Set", "LPush"} /\ command.key = k)) =>
                    memory[k] = ValueList(<<>>)

\* LLEN answered 0 for a key whose list an LPOP had emptied
C32_Witness ==
    /\ command.op = "LLen"
    /\ HoldsList(before, command.key)
    /\ before[command.key].list = <<>>
    /\ result = ReturnSize(0)

\* C33: range commands are total.  For every pair of signed 64-bit bounds
\* GETRANGE on a missing key or on the empty string returns the empty
\* BulkString, and GETRANGE and BITCOUNT on any String or Integer key return
\* a normal reply: apply does not abort.
C33_RangesAreTotal ==
    (command.op \in {"GetRange", "BitCount"} /\ ~HoldsList(before, command.key)) =>
        /\ result.ok
        /\ (/\ command.op = "GetRange"
            /\ \/ ~contains_key(before, command.key)
               \/ before[command.key] = ValueString(<<>>)) =>
              result = ReturnBulkString(<<>>)

ReadOnly == {"Get", "Exists", "Strlen", "Type", "BitCount", "GetRange", "LLen", "LIndex"}

\* C34: GET, EXISTS, STRLEN, TYPE, BITCOUNT, GETRANGE, LLEN and LINDEX leave
\* the whole keyspace as it was, for every argument and every state, and the
\* same command given again returns the same reply.
C34_ReadOnly ==
    /\ [](command.op \in ReadOnly => memory = before)
    /\ [][(/\ command.op \in ReadOnly
           /\ command' = command
           /\ result # Panicked
           /\ result' # Panicked) => result' = result]_vars

\* a GETRANGE that returned bytes from a key, which still holds them
C34_Witness ==
    /\ command.op = "GetRange"
    /\ result.ok /\ result.bytes # <<>>
    /\ HoldsBytes(memory, command.key)
    /\ Cardinality(DOMAIN memory) = 2

\* a key is the same in two keyspaces: absent from both or the same value
SameAt(m1, m2, k) ==
    /\ contains_key(m1, k) = contains_key(m2, k)
    /\ contains_key(m1, k) => m1[k] = m2[k]

\* C35: SET, APPEND, INCRBY, DECRBY, LPUSH and LPOP on k leave every other
\* key as it was, RENAME k k' every key other than k and k', DEL every key
\* it does not list; SET k v replaces what k held, whatever its type.
C35_WritesTouchOnlyNamedKeys ==
    \A j \in Keys :
        /\ (/\ command.op \in {"Set", "Append", "IncrBy", "DecrBy", "LPush", "LPop"}
            /\ j # command.key) => SameAt(memory, before, j)
        /\ (command.op = "Rename" /\ j \notin {command.key, command.value}) =>
              SameAt(memory, before, j)
        /\ (command.op = "Del" /\ \A n \in 1..Len(command.keys) : command.keys[n] # j) =>
              SameAt(memory, before, j)
        /\ (command.op = "Set" /\ j = command.key) =>
              /\ result = ReturnOk
              /\ HoldsBytes(memory, j)
              /\ memory[j] = integer_or_string(command.value)

\* SET replaced a list while the other key kept its list
C35_Witness ==
    /\ command.op = "Set"
    /\ HoldsList(before, command.key)
    /\ HoldsBytes(memory, command.key)
    /\ \E j \in Keys : j # command.key /\ HoldsList(before, j) /\ SameAt(memory, before, j)

(***************************************************************************)
(* Lowering and the codec (spec sections 4.2, 5 and 6), checked under      *)
(* SpecConn.                                                               *)
(***************************************************************************)
\* the token vector of the request array in the buffer
Tokens(w) == bulk_strings(decode(buffer[w]).value.array)

\* the argument counts of the recognized commands: GET k, SET k v,
\* EXISTS k..., DEL k..., RENAME k k', INCR k, DECR k, INCRBY k n,
\* DECRBY k n, STRLEN k, APPEND k v, TYPE k, BITCOUNT k [start end],
\* GETRANGE k start end, LPUSH k v..., LLEN k, LINDEX k i, LPOP k
ArityOk(name, n) ==
    CASE name \in {<<"d", "e", "c", "r">>, <<"g", "e", "t">>, <<"i", "n", "c", "r">>,
                   <<"l", "l", "e", "n">>, <<"l", "p", "o", "p">>,
                   <<"s", "t", "r", "l", "e", "n">>, <<"t", "y", "p", "e">>} -> n = 1
      [] name \in {<<"a", "p", "p", "e", "n", "d">>, <<"r", "e", "n", "a", "m", "e">>,
                   <<"s", "e", "t">>, <<"d", "e", "c", "r", "b", "y">>,
                   <<"i", "n", "c", "r", "b", "y">>, <<"l", "i", "n", "d", "e", "x">>} -> n = 2
      [] name \in {<<"d", "e", "l">>, <<"e", "x", "i", "s", "t", "s">>} -> n >= 1
      [] name = <<"b", "i", "t", "c", "o", "u", "n", "t">> -> n \in {1, 3}
      [] name = <<"g", "e", "t", "r", "a", "n", "g", "e">> -> n = 3
      [] name = <<"l", "p", "u", "s", "h">> -> n >= 2
      [] OTHER -> FALSE

\* the positions, among n arguments, of those that must be numbers
NumericArgs(name, n) ==
    IF name \in {<<"d", "e", "c", "r", "b", "y">>, <<"i", "n", "c", "r", "b", "y">>,
                 <<"l", "i", "n", "d", "e", "x">>} THEN {2}
    ELSE IF name = <<"g", "e", "t", "r", "a", "n", "g", "e">> THEN {2, 3}
    ELSE IF name = <<"b", "i", "t", "c", "o", "u", "n", "t">> /\ n = 3 THEN {2, 3}
    ELSE {}

\* C27: command lowering.  A request is lowered to a command only when its
\* first token names one of the 18 commands and the number of the other
\* tokens is one the command takes; a name that is none of them is answered
\* with UnknownCommand carrying it, a wrong number of arguments with
\* BadArity carrying the name, and a right number with a numeric argument
\* that is no signed 64-bit decimal with NotAnInteger.
C27_Lowering ==
    pc[Conn] \in {"lock", "reply"} =>
        LET s     == Tokens(Conn)
            known == s # <<>> /\ to_ascii_lowercase(s[1]) \in CommandNames
            name  == to_ascii_lowercase(s[1])
            n     == Len(s) - 1
        IN  /\ pc[Conn] = "lock" => known /\ ArityOk(name, n)
            /\ ~known =>
                  /\ pc[Conn] = "reply"
                  /\ res[Conn] = UnknownCommand(IF s = <<>> THEN <<>> ELSE s[1])
            /\ (known /\ ~ArityOk(name, n)) =>
                  /\ pc[Conn] = "reply"
                  /\ res[Conn] = BadCommandAryth(name)
            /\ (/\ known
                /\ ArityOk(name, n)
                /\ \E a \in NumericArgs(name, n) : ~from_str_radix(s[a + 1]).ok) =>
                  /\ pc[Conn] = "reply"
                  /\ res[Conn] = NotAnInteger

\* the texts of the error replies, as the protocol section lists them
TextNoSuchKey ==
    <<"E", "R", "R", " ", "n", "o", " ", "s", "u", "c", "h", " ", "k", "e",
      "y">>
TextWrongType ==
    <<"W", "R", "O", "N", "G", "T", "Y", "P", "E", " ", "O", "p", "e", "r",
      "a", "t", "i", "o", "n", " ", "a", "g", "a", "i", "n", "s", "t", " ",
      "a", " ", "k", "e", "y", " ", "h", "o", "l", "d", "i", "n", "g", " ",
      "t", "h", "e", " ", "w", "r", "o", "n", "g", " ", "k", "i", "n", "d",
      " ", "o", "f", " ", "v", "a", "l", "u", "e">>
TextNotAnInteger ==
    <<"E", "R", "R", " ", "v", "a", "l", "u", "e", " ", "i", "s", " ", "n",
      "o", "t", " ", "a", "n", " ", "i", "n", "t", "e", "g", "e", "r", " ",
      "o", "r", " ", "o", "u", "t", " ", "o", "f", " ", "r", "a", "n", "g",
      "e">>
TextIntegerOverflow ==
    <<"E", "R", "R", " ", "i", "n", "c", "r", "e", "m", "e", "n", "t", " ",
      "o", "r", " ", "d", "e", "c", "r", "e", "m", "e", "n", "t", " ", "w",
      "o", "u", "l", "d", " ", "o", "v", "e", "r", "f", "l", "o", "w">>
TextUnknownCommand(name) ==
    <<"E", "R", "R", " ", "u", "n", "k", "n", "o", "w", "n", " ", "c", "o",
      "m", "m", "a", "n", "d", " ", "'">> \o name \o <<"'">>
TextBadArity(name) ==
    <<"E", "R", "R", " ", "w", "r", "o", "n", "g", " ", "n", "u", "m", "b",
      "e", "r", " ", "o", "f", " ", "a", "r", "g", "u", "m", "e", "n", "t",
      "s", " ", "f", "o", "r", " ", "'">> \o name
    \o <<"'", " ", "c", "o", "m", "m", "a", "n", "d">>
ErrorText(err) ==
    CASE err.kind = "NoSuchKey" -> TextNoSuchKey
      [] err.kind = "WrongType" -> TextWrongType
      [] err.kind = "NotAnInteger" -> TextNotAnInteger
      [] err.kind = "IntegerOverflow" -> TextIntegerOverflow
      [] err.kind = "UnknownCommand" -> TextUnknownCommand(err.bytes)
      [] err.kind = "BadCommandAryth" -> TextBadArity(err.bytes)

\* no CR and no LF before the two bytes that end the line
OneLine(bytes) ==
    /\ Len(bytes) >= 2
    /\ SubSeq(bytes, Len(bytes) - 1, Len(bytes)) = CRLF
    /\ \A n \in 1..(Len(bytes) - 2) : bytes[n] \notin {CR, LF}

ErrorSamples ==
    {NoSuchKey, WrongType, NotAnInteger, IntegerOverflow}
    \cup {UnknownCommand(name) : name \in FirstTokens}
    \cup {BadCommandAryth(name) : name \in FirstTokens}

\* C28: each error is written as one line that starts with '-' and ends
\* with CRLF and carries the text fixed for its kind, no two kinds are
\* written alike, and no successful reply starts with '-'.
C28_ErrorEncoding ==
    [][replies'[Conn] = replies[Conn] + 1 =>
          LET r   == res[Conn]
              out == last_reply'[Conn]
          IN  IF r.ok THEN Head(out) # "-"
              ELSE /\ out = <<"-">> \o ErrorText(r) \o CRLF
                   /\ OneLine(out)
                   /\ \A e \in ErrorSamples : e.kind # r.kind => encode_error(e) # out]_vars

C36_LPushNeedsValue ==
    /\ (/\ pc[Conn] \in {"lock", "reply"}
        /\ Len(Tokens(Conn)) = 2
        /\ to_ascii_lowercase(Tokens(Conn)[1]) = <<"l", "p", "u", "s", "h">>) =>
            /\ pc[Conn] = "reply"
            /\ res[Conn] = BadCommandAryth(<<"l", "p", "u", "s", "h">>)
    /\ (pc[Conn] = "write" /\ cmd[Conn].op = "LPush" /\ res[Conn].ok) =>
            /\ res[Conn].int >= 1
            /\ memory[cmd[Conn].key].list # <<>>

(***************************************************************************)
(* Requests and replies (spec sections 5 and 7).                           *)
(***************************************************************************)
\* C37: one reply per request, however the requests are cut into reads.  A
\* worker back at its read has written as many replies as whole requests
\* have arrived on its connection.  (Checked under SpecTcp.)
C37_OneReplyPerRequest ==
    \A w \in Workers : pc[w] = "read" => replies[w] = received[w]

\* the request array in the buffer holds an element that is no bulk string
HoldsOtherElement(w) ==
    LET d == decode(buffer[w])
    IN  /\ d.status = "Done"
        /\ d.value.type = "Array"
        /\ \E n \in 1..Len(d.value.array) : d.value.array[n].type # "BulkString"

\* C39: only arrays of bulk strings are executed.  A request array holding
\* an element that is no bulk string does not get a command applied, and
\* the tokens lowered are the elements of the array, each of them.
\* (Checked under SpecMixed.)
C39_OnlyBulkArraysRun ==
    /\ HoldsOtherElement(Conn) => pc[Conn] \notin {"lock", "apply", "write"}
    /\ pc[Conn] \in {"lock", "reply"} =>
          Len(Tokens(Conn)) = Len(decode(buffer[Conn]).value.array)

\* C38: progress under a stalled peer.  Under fair scheduling a worker that
\* has lowered a command and waits for the keyspace lock gets past the
\* lock, though the peer of another connection never drains its socket.
\* (Checked under SpecStall.)
C38_ProgressUnderStall ==
    \A w \in Workers \ {Stalled} : (pc[w] = "lock") ~> (pc[w] # "lock")

\* the read of a worker returned zero bytes and it has left its loop
ClosedByPeer(w) == pc[w] = "shutdown" /\ cause[w] = "incomplete" /\ buffer[w] = <<>>

=============================================================================
